---- MODULE Spec2Model ----
(***************************************************************************)
(* Model of the product information service (pis-service): the document   *)
(* store filled by the seed scripts, the search route with its price      *)
(* aggregation, scoring and sorting, and the spec-value extraction of the  *)
(* response models.                                                        *)
(*                                                                         *)
(* Conventions                                                             *)
(*  - An Optional[...] value is <<>> (None / key absent) or <<v>>.         *)
(*  - A price (a Python float) is an integer number of HALF units:         *)
(*    1299 stands for 649.5.  budget_max is a whole number of units.       *)
(*  - A rating is an integer number of tenths: 45 stands for 4.5.          *)
(*  - A score is kept in tenths of a point.                                *)
(*  - A dict is the sequence of its items in insertion order.              *)
(*  - Float arithmetic is exact rational arithmetic; round() breaks a tie  *)
(*    to the even neighbour.                                               *)
(*  - A product document carries its variants, and a variant its offers,   *)
(*    in insertion order; the position of a product in db.products stands  *)
(*    for its _id.                                                         *)
(***************************************************************************)
EXTENDS Integers, Sequences, FiniteSets, TLC

VARIABLES
    products,   \* db.products with the variants and offers of each product
    request,    \* the parameters of the last GET /api/v1/search/
    response,   \* the answer to it
    detail,     \* the last answer of GET /api/v1/products/{product_id}
    reviews,    \* db.reviews: the product each review is about
    comparison_sessions,    \* the product_ids list of each comparison session
    comparison, \* the last answer of a comparison endpoint
    favorites,  \* db.favorites: the favorites documents
    favorite,   \* the last answer of a favorites endpoint
    reply,      \* the last answer of the variants, provenance, offers and
                \* review summary endpoints
    inflight    \* the requests suspended at an await, with their locals

vars == <<products, request, response, detail, reviews, comparison_sessions,
          comparison, favorites, favorite, reply, inflight>>

(***************************************************************************)
(* Python values                                                           *)
(***************************************************************************)
None == <<>>

Some(v) == <<v>>

Min2(a, b) == IF a <= b THEN a ELSE b

Max2(a, b) == IF a >= b THEN a ELSE b

\* A value inside a specs dict: an int, a bool (n = 1 for True), a str, a
\* list of n items (the `sources` of a tagged value), None, or a nested
\* dict (DictVal below).
IntVal(n) == [k |-> "int", n |-> n, s |-> ""]

BoolVal(b) == [k |-> "bool", n |-> IF b THEN 1 ELSE 0, s |-> ""]

StrVal(s) == [k |-> "str", n |-> 0, s |-> s]

ListVal(n) == [k |-> "list", n |-> n, s |-> ""]

NoneVal == [k |-> "none", n |-> 0, s |-> ""]

\* A dict that is itself a value, such as {"front": {"mp": 12}}: n is the
\* number of its items.
DictVal(items) == [k |-> "dict", n |-> Len(items), s |-> "", items |-> items]

\* Python truth value: 0, False, "", [], {} and None are falsy.
Truthy(x) ==
    CASE x.k = "int" -> x.n # 0
      [] x.k = "bool" -> x.n = 1
      [] x.k = "str" -> x.s # ""
      [] x.k = "list" -> x.n > 0
      [] x.k = "dict" -> x.n > 0
      [] OTHER -> FALSE

\* str(x) of a scalar inside an f-string.
PyStr(x) ==
    CASE x.k = "int" -> ToString(x.n)
      [] x.k = "bool" -> IF x.n = 1 THEN "True" ELSE "False"
      [] x.k = "str" -> x.s
      [] x.k = "list" -> "[...]"
      [] x.k = "dict" -> "{...}"
      [] OTHER -> "None"

\* A spec value of a product: a scalar, or a dict of scalars.
Scalar(x) == [isdict |-> FALSE, sc |-> x, items |-> <<>>]

Dict(items) == [isdict |-> TRUE, sc |-> NoneVal, items |-> items]

Item(key, val) == [key |-> key, val |-> val]

Keys(d) == {d[i].key : i \in 1..Len(d)}

HasKey(d, key) == key \in Keys(d)

\* d[key] of a dict that has the key.
Get(d, key) == d[CHOOSE i \in 1..Len(d) : d[i].key = key].val

\* cursor.to_list(n): at most the first n documents.
ToList(s, n) == SubSeq(s, 1, Min2(n, Len(s)))

\* round() of a non-negative rational n/d to an integer, ties to even.
Round(n, d) ==
    LET q == n \div d
        r == n % d
    IN  IF 2 * r < d THEN q
        ELSE IF 2 * r > d THEN q + 1
        ELSE IF q % 2 = 0 THEN q ELSE q + 1

(***************************************************************************)
(* Spec normalization                                                      *)
(***************************************************************************)
\* The value of the first item, in insertion order, that is truthy and
\* whose key is not one of the metadata keys; None when there is none.
FirstMeaningful(items, metadata) ==
    LET hits == {i \in 1..Len(items) :
                    Truthy(items[i].val) /\ items[i].key \notin metadata}
    IN  IF hits = {} THEN None
        ELSE Some(items[CHOOSE i \in hits : \A j \in hits : i <= j].val)

\* f"{value['min']}-{value['max']}"
FormatRange(items) ==
    StrVal(PyStr(Get(items, "min")) \o "-" \o PyStr(Get(items, "max")))

\* The three branches shared by the normalizers for a dict value; None
\* when no branch assigns the key.
ExtractDict(items, metadata) ==
    IF HasKey(items, "value") THEN Some(Get(items, "value"))
    ELSE IF HasKey(items, "min") /\ HasKey(items, "max")
         THEN Some(FormatRange(items))
    ELSE FirstMeaningful(items, metadata)

\* ProductResponse.extract_spec_values, one key: a non-dict is kept as it is.
ExtractSpecValue(value) ==
    IF value.isdict
    THEN ExtractDict(value.items, {"confidence", "sources", "unit"})
    ELSE Some(value.sc)

\* The spec summary of search_products, one key: a falsy non-dict is not
\* assigned, and `unit` is not a metadata key.
SummarySpecValue(value) ==
    IF value.isdict
    THEN ExtractDict(value.items, {"confidence", "sources"})
    ELSE IF Truthy(value.sc) THEN Some(value.sc) ELSE None

\* ProductResponse.extract_spec_values: the keys that were assigned, in the
\* order of the input (`if not v: return {}` is the empty case).
extract_spec_values(v) ==
    LET result[i \in 0..Len(v)] ==
            IF i = 0 THEN <<>>
            ELSE LET got == ExtractSpecValue(v[i].val)
                 IN  IF got = None THEN result[i - 1]
                     ELSE Append(result[i - 1], Item(v[i].key, got[1]))
    IN  result[Len(v)]

\* spec_summary of search_products.
spec_summary(specs) ==
    LET summary[i \in 0..Len(specs)] ==
            IF i = 0 THEN <<>>
            ELSE LET got == SummarySpecValue(specs[i].val)
                 IN  IF got = None THEN summary[i - 1]
                     ELSE Append(summary[i - 1], Item(specs[i].key, got[1]))
    IN  summary[Len(specs)]

(***************************************************************************)
(* Price aggregation (search_products, lines 36-70)                        *)
(***************************************************************************)
\* float('inf'): larger than every price of the model.
Inf == 1000000

\* The length passed to to_list() for variants and for offers.
FetchLimit == 10

\* `if budget_max`: None and 0 are both falsy.
BudgetSet(budget_max) == budget_max # None /\ budget_max[1] # 0

\* price <= budget_max, the price being in half units.
WithinBudget(price, budget_max) == price <= 2 * budget_max[1]

\* A fetch that forgets the condition filter.
NewOffersAnyCondition(variant) == ToList(variant, FetchLimit)

\* db.offers.find({"variant_id": ..., "condition": "new"}).to_list(10)
NewOffers(variant) ==
    ToList(SelectSeq(variant, LAMBDA o : o.condition = "new"), FetchLimit)

\* The offers the two nested loops visit, in order.
RECURSIVE Visit(_)
Visit(variants) ==
    IF variants = <<>> THEN <<>>
    ELSE NewOffers(variants[1]) \o Visit(Tail(variants))

FoundOffers(product) == Visit(ToList(product.variants, FetchLimit))

\* The loop body of lines 48-56 over the visited offers.
RECURSIVE Accumulate(_, _, _)
Accumulate(offers, acc, budget_max) ==
    IF offers = <<>> THEN acc
    ELSE LET price == offers[1].price_amount
             next == [min |-> IF price < acc.min THEN price ELSE acc.min,
                      max |-> IF price > acc.max THEN price ELSE acc.max,
                      in_budget |-> IF BudgetSet(budget_max)
                                       /\ WithinBudget(price, budget_max)
                                    THEN TRUE ELSE acc.in_budget]
         IN  Accumulate(Tail(offers), next, budget_max)

\* price_range and in_budget when line 57 is reached.
Aggregate(product, budget_max) ==
    Accumulate(FoundOffers(product),
               [min |-> Inf, max |-> 0, in_budget |-> FALSE], budget_max)

\* Lines 62-66: price_range and in_budget after the fallback to the
\* product's own price_range.
Priced(product, budget_max) ==
    LET agg == Aggregate(product, budget_max)
    IN  IF agg.min = Inf /\ product.price_range # None
        THEN [min |-> product.price_range[1].min,
              max |-> product.price_range[1].max,
              in_budget |-> IF BudgetSet(budget_max)
                            THEN WithinBudget(product.price_range[1].min, budget_max)
                            ELSE agg.in_budget]
        ELSE agg

\* A loop without the two `continue` statements.
SkippedNever(product, budget_max) == FALSE

\* The two `continue` statements of lines 58-60 and 68-70.
Skipped(product, budget_max) ==
    LET agg == Aggregate(product, budget_max)
        priced == Priced(product, budget_max)
    IN  \/ BudgetSet(budget_max) /\ ~agg.in_budget /\ agg.min # Inf
        \/ BudgetSet(budget_max) /\ ~priced.in_budget

\* Line 108.
final_price_range(product, budget_max) ==
    LET priced == Priced(product, budget_max)
    IN  IF priced.min # Inf THEN [min |-> priced.min, max |-> priced.max]
        ELSE IF product.price_range # None THEN product.price_range[1]
        ELSE [min |-> 0, max |-> 0]

\* PriceRange.round_price: int(round(float(v))) of a price in half units.
round_price(v) == Round(v, 2)

\* SearchResultItem.convert_price_range followed by the PriceRange validators.
convert_price_range(v) ==
    Some([min |-> round_price(v.min), max |-> round_price(v.max)])

(***************************************************************************)
(* Scoring (search_products, lines 92-106)                                 *)
(***************************************************************************)
\* `if product.get("rating")` and `if product.get("popularity_rank")`:
\* a missing value and 0 are both falsy.
Present(field) == field # None /\ field[1] # 0

\* product["rating"] * 10, in tenths of a point.
rating_score(product) ==
    IF Present(product.rating) THEN 10 * product.rating[1] ELSE 0

\* A popularity term that is not clamped at 0.
popularity_score_unclamped(product) ==
    IF Present(product.popularity_rank)
    THEN 10 * (100 - product.popularity_rank[1])
    ELSE 0

\* max(0, 100 - product["popularity_rank"]), in tenths of a point.
popularity_score(product) ==
    IF Present(product.popularity_rank)
    THEN 10 * Max2(0, 100 - product.popularity_rank[1])
    ELSE 0

\* The score before rounding, in tenths of a point, as the fraction
\* num/den: max(0, (budget_max - min) / budget_max * 30) has the
\* denominator budget_max, the other two terms are whole tenths.
Score(product, budget_max) ==
    LET priced == Priced(product, budget_max)
        fixed == rating_score(product) + popularity_score(product)
    IN  IF BudgetSet(budget_max) /\ priced.min # Inf
        THEN [num |-> fixed * budget_max[1]
                        + Max2(0, 150 * (2 * budget_max[1] - priced.min)),
              den |-> budget_max[1]]
        ELSE [num |-> fixed, den |-> 1]

\* SearchResultItem.round_score: round(float(v), 1), in tenths of a point.
round_score(v) == Round(v.num, v.den)

(***************************************************************************)
(* Filters (search_products, lines 18-30)                                  *)
(***************************************************************************)
UpperCase == <<"A", "B", "S">>

LowerCase == <<"a", "b", "s">>

Lower(c) ==
    IF \E i \in 1..Len(UpperCase) : UpperCase[i] = c
    THEN LowerCase[CHOOSE i \in 1..Len(UpperCase) : UpperCase[i] = c]
    ELSE c

\* {"$regex": brand, "$options": "i"} for a pattern of plain letters:
\* the pattern occurs in the text, whatever the case.
RegexMatch(pattern, text) ==
    \E at \in 0..(Len(text) - Len(pattern)) :
        \A i \in 1..Len(pattern) : Lower(text[at + i]) = Lower(pattern[i])

\* filter_query applied to one product.
Matches(product, q) ==
    /\ (q.category # None /\ q.category[1] # "")
            => product.category = q.category[1]
    /\ (q.brand # None /\ q.brand[1] # <<>>)
            => RegexMatch(q.brand[1], product.brand)
    /\ (q.min_rating # None /\ q.min_rating[1] # 0)
            => (product.rating # None /\ product.rating[1] >= q.min_rating[1])

\* db.products.find(filter_query).to_list(limit * 2): positions in db.products.
Candidates(q) ==
    LET upto[i \in 0..Len(products)] ==
            IF i = 0 THEN <<>>
            ELSE IF Matches(products[i], q) THEN Append(upto[i - 1], i)
            ELSE upto[i - 1]
    IN  ToList(upto[Len(products)], q.limit * 2)

(***************************************************************************)
(* Result list and sort (search_products, lines 108-140)                   *)
(***************************************************************************)
\* SearchResultItem(...) of lines 109-120 for the product at position id.
SearchResultItem(id, budget_max) ==
    LET product == products[id]
    IN  [product_id |-> id,
         category |-> product.category,
         brand |-> product.brand,
         price_range |-> convert_price_range(final_price_range(product, budget_max)),
         rating |-> product.rating,
         popularity_rank |-> product.popularity_rank,
         specs |-> spec_summary(product.specs),
         score |-> round_score(Score(product, budget_max)),
         in_budget |-> IF BudgetSet(budget_max)
                       THEN Some(Priced(product, budget_max).in_budget)
                       ELSE None]

\* The loop of lines 33-120: one item per candidate that is not skipped.
Results(q) ==
    LET cands == Candidates(q)
        upto[i \in 0..Len(cands)] ==
            IF i = 0 THEN <<>>
            ELSE IF Skipped(products[cands[i]], q.budget_max) THEN upto[i - 1]
            ELSE Append(upto[i - 1], SearchResultItem(cands[i], q.budget_max))
    IN  upto[Len(cands)]

\* key=lambda x: x.price_range.min if x.price_range else 0
PriceKey(x) == IF x.price_range # None THEN x.price_range[1].min ELSE 0

\* key=lambda x: x.popularity_rank or 999
PopularityKey(x) ==
    IF Present(x.popularity_rank) THEN x.popularity_rank[1] ELSE 999

\* key=lambda x: x.score
ScoreKey(x) == x.score

\* A comparison that puts an element before its equals.
ByPriceOrEqual(x, y) == PriceKey(x) <= PriceKey(y)

ByPrice(x, y) == PriceKey(x) < PriceKey(y)

ByPopularity(x, y) == PopularityKey(x) < PopularityKey(y)

\* A score sort that forgets reverse=True.
ByScoreAscending(x, y) == ScoreKey(x) < ScoreKey(y)

\* reverse=True
ByScore(x, y) == ScoreKey(x) > ScoreKey(y)

\* Lines 122-128: x must come before y under the selected criterion.
Before(sort, x, y) ==
    IF sort = "price" THEN ByPrice(x, y)
    ELSE IF sort = "popularity" THEN ByPopularity(x, y)
    ELSE ByScore(x, y)

\* list.sort: x is placed before the first element it must precede, so
\* equal elements keep their order.
SortedInsert(sorted, x, sort) ==
    LET later == {j \in 1..Len(sorted) : Before(sort, x, sorted[j])}
    IN  IF later = {} THEN Append(sorted, x)
        ELSE LET at == CHOOSE j \in later : \A k \in later : j <= k
             IN  SubSeq(sorted, 1, at - 1) \o <<x>> \o SubSeq(sorted, at, Len(sorted))

\* results.sort(key=...)
Sorted(results, sort) ==
    LET upto[i \in 0..Len(results)] ==
            IF i = 0 THEN <<>>
            ELSE SortedInsert(upto[i - 1], results[i], sort)
    IN  upto[Len(results)]

(***************************************************************************)
(* Operations                                                              *)
(***************************************************************************)
\* db.products.insert_one(product_doc)
InsertProduct(doc) ==
    /\ products' = Append(products, doc)
    /\ UNCHANGED <<request, response, detail, reviews, comparison_sessions, comparison, favorites, favorite, reply, inflight>>

\* db.variants.insert_one(variant_doc) for the product at position p
InsertVariant(p) ==
    /\ p \in 1..Len(products)
    /\ products' = [products EXCEPT ![p].variants = Append(@, <<>>)]
    /\ UNCHANGED <<request, response, detail, reviews, comparison_sessions, comparison, favorites, favorite, reply, inflight>>

\* db.offers.insert_one(offer_doc) for variant v of the product at position p
InsertOffer(p, v, offer) ==
    /\ p \in 1..Len(products)
    /\ v \in 1..Len(products[p].variants)
    /\ products' = [products EXCEPT ![p].variants[v] = Append(@, offer)]
    /\ UNCHANGED <<request, response, detail, reviews, comparison_sessions, comparison, favorites, favorite, reply, inflight>>

\* GET /api/v1/search/
search_products(q) ==
    /\ request' = Some(q)
    /\ LET results == Sorted(Results(q), q.sort)
       IN  response' = Some([query |-> [category |-> q.category,
                                        budget_max |-> q.budget_max,
                                        brand |-> q.brand,
                                        min_rating |-> q.min_rating,
                                        sort |-> q.sort],
                             total_results |-> Len(results),
                             products |-> ToList(results, q.limit)])
    /\ UNCHANGED <<products, detail, reviews, comparison_sessions,
                 comparison, favorites, favorite, reply, inflight>>

\* db.products.update_one({"_id": ...}, {"$set": {"default_variant_id": ...}})
SetDefaultVariant(p, v) ==
    /\ p \in 1..Len(products)
    /\ v \in 1..Len(products[p].variants)
    /\ products' = [products EXCEPT ![p].default_variant_id = Some(v)]
    /\ UNCHANGED <<request, response, detail, reviews, comparison_sessions, comparison, favorites, favorite, reply, inflight>>

\* db.reviews.insert_one(review_doc) for the product at position p
InsertReview(p) ==
    /\ p \in 1..Len(products)
    /\ reviews' = Append(reviews, p)
    /\ UNCHANGED <<products, request, response, detail, comparison_sessions, comparison, favorites, favorite, reply, inflight>>

(***************************************************************************)
(* Ids and answers.  The id string of a request is the number n for        *)
(* str(_id) of the n-th product (it names no product when n exceeds the    *)
(* number of products), or Malformed for a string that is not an ObjectId. *)
(* The id string of a variant is its number in db.variants in the same way.*)
(***************************************************************************)
Malformed == 0

\* ObjectId.is_valid(product_id): ObjectId(product_id) raises InvalidId
\* exactly when this is false.
ObjectIdIsValid(id) == id # Malformed

\* db.products.find_one({"_id": ObjectId(product_id)}) finds a document.
Known(product_id) == product_id \in 1..Len(products)

\* raise HTTPException(status_code=...)
HTTPException(status_code) == [status |-> status_code]

\* An exception no handler catches is answered with 500.
InternalServerError == [status |-> 500]

\* ProductResponse.convert_price_range: `if not v: return None`
product_price_range(v) ==
    IF v = None THEN None ELSE convert_price_range(v[1])

\* ProductResponse(**product) for the product at position p.
ProductResponse(p) ==
    [product_id |-> p,
     category |-> products[p].category,
     brand |-> products[p].brand,
     price_range |-> product_price_range(products[p].price_range),
     rating |-> products[p].rating,
     popularity_rank |-> products[p].popularity_rank,
     default_variant_id |-> products[p].default_variant_id,
     specs |-> extract_spec_values(products[p].specs)]

\* GET /api/v1/products/{product_id}
get_product(product_id) ==
    /\ detail' =
          Some([op |-> "get_product", id |-> product_id,
                answer |->
                    IF ~ObjectIdIsValid(product_id) THEN HTTPException(400)
                    ELSE IF ~Known(product_id) THEN HTTPException(404)
                    ELSE [status |-> 200,
                          product |-> ProductResponse(product_id),
                          total_variants |->
                              Len(ToList(products[product_id].variants, 100))]])
    /\ UNCHANGED <<products, request, response, reviews, comparison_sessions,
                 comparison, favorites, favorite, reply, inflight>>

(***************************************************************************)
(* Comparison matrix (compare.py)                                          *)
(***************************************************************************)
\* The placeholder of line 212, an em dash.
Sentinel == StrVal("--")

\* all_spec_keys of lines 157-161, over the dicts of ProductResponse.
all_spec_keys(prods) == UNION {Keys(prods[i].specs) : i \in 1..Len(prods)}

\* Lines 195-212 for one key: the value assigned to the row, None when no
\* branch assigns the key.
MatrixSpecValue(specs, key) ==
    LET spec_value == IF HasKey(specs, key) THEN Get(specs, key) ELSE NoneVal
    IN  IF Truthy(spec_value)
        THEN IF spec_value.k = "dict"
             THEN ExtractDict(spec_value.items, {"confidence", "sources"})
             ELSE Some(spec_value)
        ELSE Some(Sentinel)

\* comparison["specs"][product_id]
SpecsRow(product, keys) ==
    [key \in {k \in keys : MatrixSpecValue(product.specs, k) # None} |->
        MatrixSpecValue(product.specs, key)[1]]

\* db.offers.find_one({"variant_id": ..., "condition": "new"},
\* sort=[("price_amount", 1)]): the price of the offer found, if any.
best_offer(p, v) ==
    LET prices == {products[p].variants[v][o].price_amount :
                      o \in {k \in 1..Len(products[p].variants[v]) :
                                products[p].variants[v][k].condition = "new"}}
    IN  IF prices = {} THEN None
        ELSE Some(CHOOSE x \in prices : \A y \in prices : x <= y)

\* comparison["pricing"][product_id], for a product with a price_range.
PricingRow(product) ==
    [min |-> product.price_range[1].min,
     max |-> product.price_range[1].max,
     currency |-> "USD",
     best_price |-> IF product.default_variant_id # None
                    THEN best_offer(product.product_id, product.default_variant_id[1])
                    ELSE None]

\* db.reviews.count_documents({"product_id": ...})
review_count(p) == Cardinality({i \in 1..Len(reviews) : reviews[i] = p})

\* The sum of db.offers.count_documents over the variants of lines 228-230.
offer_count(p) ==
    LET upto[i \in 0..Len(products[p].variants)] ==
            IF i = 0 THEN 0 ELSE upto[i - 1] + Len(products[p].variants[i])
    IN  upto[Len(products[p].variants)]

\* comparison["ratings"][product_id]
RatingsRow(product) ==
    [average |-> product.rating,
     popularity_rank |-> product.popularity_rank,
     review_count |-> review_count(product.product_id)]

\* comparison["availability"][product_id]
AvailabilityRow(product) ==
    [variants |-> Len(products[product.product_id].variants),
     offers |-> offer_count(product.product_id),
     in_stock |-> offer_count(product.product_id) > 0]

\* Line 175 yields None for a product whose price_range is None, and
\* price_range.get of line 177 then raises AttributeError.
MatrixRaises(prods) == \E i \in 1..Len(prods) : prods[i].price_range = None

\* build_comparison_matrix for a list on which it does not raise: {} for
\* the empty list, else the five sub-tables keyed by product_id.
build_comparison_matrix(prods) ==
    IF prods = <<>> THEN None
    ELSE LET ids == {prods[i].product_id : i \in 1..Len(prods)}
             of(id) == prods[CHOOSE i \in 1..Len(prods) : prods[i].product_id = id]
         IN  Some([basic_info |-> [id \in ids |->
                                      [brand |-> of(id).brand,
                                       category |-> of(id).category]],
                   pricing |-> [id \in ids |-> PricingRow(of(id))],
                   specs |-> [id \in ids |-> SpecsRow(of(id), all_spec_keys(prods))],
                   ratings |-> [id \in ids |-> RatingsRow(of(id))],
                   availability |-> [id \in ids |-> AvailabilityRow(of(id))]])

\* db.products.find({"_id": {"$in": object_ids}}).to_list(None) followed by
\* ProductResponse(**product): the products named, in the order of the store.
FindProducts(ids) ==
    LET upto[i \in 0..Len(products)] ==
            IF i = 0 THEN <<>>
            ELSE IF \E k \in 1..Len(ids) : ids[k] = i
                 THEN Append(upto[i - 1], ProductResponse(i))
                 ELSE upto[i - 1]
    IN  upto[Len(products)]

\* Lines 133-142 and 48-58: the answer with the matrix of the products found.
Compared(prods) ==
    IF MatrixRaises(prods) THEN InternalServerError
    ELSE [status |-> 200, products |-> prods,
          comparison |-> build_comparison_matrix(prods)]

\* A comparison that writes the rounded price_range back to the products
\* it found.
compare_products_storing(ids) ==
    /\ comparison' =
          Some([op |-> "compare_products", session_id |-> 0, ids |-> ids,
                answer |-> IF FindProducts(ids) = <<>>
                           THEN [status |-> 200, products |-> <<>>, comparison |-> None]
                           ELSE Compared(FindProducts(ids))])
    /\ products' =
          [p \in 1..Len(products) |->
              IF (\E k \in 1..Len(ids) : ids[k] = p) /\ products[p].price_range # None
              THEN [products[p] EXCEPT
                        !.price_range = Some([min |-> 2 * round_price(@[1].min),
                                              max |-> 2 * round_price(@[1].max)])]
              ELSE products[p]]
    /\ UNCHANGED <<request, response, detail, reviews, comparison_sessions,
                 favorites, favorite, reply, inflight>>

\* GET /compare?product_ids=...: ids is product_ids.split(",").
compare_products(ids) ==
    /\ comparison' =
          Some([op |-> "compare_products", session_id |-> 0, ids |-> ids,
                answer |->
                    IF Len(ids) > 4 THEN HTTPException(400)
                    ELSE IF \E i \in 1..Len(ids) : ~ObjectIdIsValid(ids[i])
                    THEN InternalServerError
                    ELSE IF FindProducts(ids) = <<>>
                    THEN [status |-> 200, products |-> <<>>, comparison |-> None]
                    ELSE Compared(FindProducts(ids))])
    /\ UNCHANGED <<products, request, response, detail, reviews,
                 comparison_sessions, favorites, favorite, reply,
                 inflight>>

\* `session_id not in comparison_sessions`; a session id is the number of
\* the session in the order of creation.
NoSession(session_id) == session_id \notin 1..Len(comparison_sessions)

\* POST /session
create_comparison_session ==
    /\ comparison_sessions' = Append(comparison_sessions, <<>>)
    /\ comparison' =
          Some([op |-> "create_comparison_session",
                session_id |-> Len(comparison_sessions) + 1, ids |-> <<>>,
                answer |-> [status |-> 200,
                            session_id |-> Len(comparison_sessions) + 1]])
    /\ UNCHANGED <<products, request, response, detail, reviews, favorites,
                 favorite, reply, inflight>>

\* GET /session/{session_id}
get_comparison_session(session_id) ==
    /\ comparison' =
          Some([op |-> "get_comparison_session", session_id |-> session_id,
                ids |-> IF NoSession(session_id) THEN <<>>
                        ELSE comparison_sessions[session_id],
                answer |->
                    IF NoSession(session_id) THEN HTTPException(404)
                    ELSE IF comparison_sessions[session_id] = <<>>
                    THEN [status |-> 200, products |-> <<>>, comparison |-> None]
                    ELSE Compared(FindProducts(comparison_sessions[session_id]))])
    /\ UNCHANGED <<products, request, response, detail, reviews,
                 comparison_sessions, favorites, favorite, reply,
                 inflight>>

\* POST /session/{session_id}/add
add_to_comparison(session_id, product_id) ==
    LET session == comparison_sessions[session_id]
        added == IF \E i \in 1..Len(session) : session[i] = product_id
                 THEN session ELSE Append(session, product_id)
        full == ~NoSession(session_id) /\ Len(session) >= 4
        adds == /\ ~NoSession(session_id) /\ ~full
                /\ ObjectIdIsValid(product_id) /\ Known(product_id)
    IN  /\ comparison_sessions' =
              IF adds THEN [comparison_sessions EXCEPT ![session_id] = added]
              ELSE comparison_sessions
        /\ comparison' =
              Some([op |-> "add_to_comparison", session_id |-> session_id,
                    ids |-> <<product_id>>,
                    answer |->
                        IF NoSession(session_id) THEN HTTPException(404)
                        ELSE IF full
                        THEN [status |-> 200,
                              error |-> "Maximum 4 products can be compared"]
                        ELSE IF ~ObjectIdIsValid(product_id) THEN InternalServerError
                        ELSE IF ~Known(product_id) THEN HTTPException(404)
                        ELSE [status |-> 200, product_ids |-> added,
                              count |-> Len(added)]])
        /\ UNCHANGED <<products, request, response, detail, reviews, favorites,
                     favorite, reply, inflight>>

\* list.remove(x): without the first occurrence of x.
Remove(list, x) ==
    LET hits == {i \in 1..Len(list) : list[i] = x}
    IN  IF hits = {} THEN list
        ELSE LET at == CHOOSE i \in hits : \A j \in hits : i <= j
             IN  SubSeq(list, 1, at - 1) \o SubSeq(list, at + 1, Len(list))

\* DELETE /session/{session_id}/remove/{product_id}
remove_from_comparison(session_id, product_id) ==
    LET removed == Remove(comparison_sessions[session_id], product_id)
    IN  /\ comparison_sessions' =
              IF NoSession(session_id) THEN comparison_sessions
              ELSE [comparison_sessions EXCEPT ![session_id] = removed]
        /\ comparison' =
              Some([op |-> "remove_from_comparison", session_id |-> session_id,
                    ids |-> <<product_id>>,
                    answer |->
                        IF NoSession(session_id) THEN HTTPException(404)
                        ELSE [status |-> 200, product_ids |-> removed,
                              count |-> Len(removed)]])
        /\ UNCHANGED <<products, request, response, detail, reviews, favorites,
                     favorite, reply, inflight>>

\* DELETE /session/{session_id}
clear_comparison(session_id) ==
    /\ comparison_sessions' =
          IF NoSession(session_id) THEN comparison_sessions
          ELSE [comparison_sessions EXCEPT ![session_id] = <<>>]
    /\ comparison' =
          Some([op |-> "clear_comparison", session_id |-> session_id,
                ids |-> <<>>,
                answer |-> IF NoSession(session_id) THEN HTTPException(404)
                           ELSE [status |-> 200, cleared |-> TRUE]])
    /\ UNCHANGED <<products, request, response, detail, reviews, favorites,
                 favorite, reply, inflight>>

(***************************************************************************)
(* add_to_comparison as the event loop runs it: the handler is suspended   *)
(* at its one await, the product lookup of line 75, and other requests are *)
(* served before it goes on.  The other session handlers have no await.    *)
(***************************************************************************)
\* A list without its i-th element.
Without(list, i) == SubSeq(list, 1, i - 1) \o SubSeq(list, i + 1, Len(list))

\* Lines 63-75: answers at once without session, for a session of 4 and for
\* a malformed id (ObjectId raises); else the request is suspended at
\* find_one with the outcome of the lookup.
add_to_comparison_begin(session_id, product_id) ==
    LET answered(answer) ==
            /\ comparison' =
                  Some([op |-> "add_to_comparison", session_id |-> session_id,
                        ids |-> <<product_id>>, answer |-> answer])
            /\ inflight' = inflight
    IN  /\ IF NoSession(session_id) THEN answered(HTTPException(404))
           ELSE IF Len(comparison_sessions[session_id]) >= 4
           THEN answered([status |-> 200,
                          error |-> "Maximum 4 products can be compared"])
           ELSE IF ~ObjectIdIsValid(product_id) THEN answered(InternalServerError)
           ELSE /\ inflight' =
                      Append(inflight,
                             [op |-> "add_to_comparison", session_id |-> session_id,
                              product_id |-> product_id,
                              product |-> Known(product_id)])
                /\ comparison' = comparison
        /\ UNCHANGED <<products, request, response, detail, reviews,
                     comparison_sessions, favorites, favorite, reply>>

\* A resumption that appends without the `not in` test.
add_to_comparison_appending(i) ==
    /\ i \in 1..Len(inflight)
    /\ inflight[i].op = "add_to_comparison"
    /\ LET r == inflight[i]
           session == comparison_sessions[r.session_id]
           added == Append(session, r.product_id)
       IN  /\ inflight' = Without(inflight, i)
           /\ comparison_sessions' =
                  IF r.product
                  THEN [comparison_sessions EXCEPT ![r.session_id] = added]
                  ELSE comparison_sessions
           /\ comparison' =
                  Some([op |-> "add_to_comparison", session_id |-> r.session_id,
                        ids |-> <<r.product_id>>,
                        answer |->
                            IF ~r.product THEN HTTPException(404)
                            ELSE [status |-> 200, product_ids |-> added,
                                  count |-> Len(added)]])
    /\ UNCHANGED <<products, request, response, detail, reviews, favorites,
                 favorite, reply>>

\* Lines 76-88, for the i-th suspended request: 404 for no product, else the
\* id is appended unless the session has it, and the list is answered.
add_to_comparison_resume(i) ==
    /\ i \in 1..Len(inflight)
    /\ inflight[i].op = "add_to_comparison"
    /\ LET r == inflight[i]
           session == comparison_sessions[r.session_id]
           added == IF \E k \in 1..Len(session) : session[k] = r.product_id
                    THEN session ELSE Append(session, r.product_id)
       IN  /\ inflight' = Without(inflight, i)
           /\ comparison_sessions' =
                  IF r.product
                  THEN [comparison_sessions EXCEPT ![r.session_id] = added]
                  ELSE comparison_sessions
           /\ comparison' =
                  Some([op |-> "add_to_comparison", session_id |-> r.session_id,
                        ids |-> <<r.product_id>>,
                        answer |->
                            IF ~r.product THEN HTTPException(404)
                            ELSE [status |-> 200, product_ids |-> added,
                                  count |-> Len(added)]])
    /\ UNCHANGED <<products, request, response, detail, reviews, favorites,
                 favorite, reply>>

(***************************************************************************)
(* Favorites (favorites.py).  A favorites document is its user_id and the  *)
(* product_id strings of its items, in the order of their added_at.        *)
(***************************************************************************)
\* hash_user_token: the digest of a token is not the token.
hash_user_token(token) == <<"sha256", token>>

\* db.favorites.find_one({"user_id": user_hash}): the position of the first
\* matching document, None without one.
FindFavorites(user_hash) ==
    LET hits == {i \in 1..Len(favorites) : favorites[i].user_id = user_hash}
    IN  IF hits = {} THEN None
        ELSE Some(CHOOSE i \in hits : \A j \in hits : i <= j)

\* user_favorites.get("items", []) of the document found, [] without one.
ItemsOf(user_hash) ==
    IF FindFavorites(user_hash) = None THEN <<>>
    ELSE favorites[FindFavorites(user_hash)[1]].items

\* any(item["product_id"] == product_id for item in items)
InItems(items, product_id) == \E i \in 1..Len(items) : items[i] = product_id

\* An update that replaces the items instead of pushing to them.
PushedReplacing(user_hash, product_id) ==
    IF FindFavorites(user_hash) = None
    THEN Append(favorites, [user_id |-> user_hash, items |-> <<product_id>>])
    ELSE [favorites EXCEPT ![FindFavorites(user_hash)[1]].items = <<product_id>>]

\* update_one with {"$push": {"items": favorite_item}} after the
\* insert_one of a new document when the user had none.
Pushed(user_hash, product_id) ==
    IF FindFavorites(user_hash) = None
    THEN Append(favorites, [user_id |-> user_hash, items |-> <<product_id>>])
    ELSE [favorites EXCEPT ![FindFavorites(user_hash)[1]].items =
                Append(@, product_id)]

\* An update that empties the items instead of pulling from them.
PulledAll(user_hash, product_id) ==
    IF FindFavorites(user_hash) = None THEN favorites
    ELSE [favorites EXCEPT ![FindFavorites(user_hash)[1]].items = <<>>]

\* update_one with {"$pull": {"items": {"product_id": product_id}}}
Pulled(user_hash, product_id) ==
    IF FindFavorites(user_hash) = None THEN favorites
    ELSE [favorites EXCEPT ![FindFavorites(user_hash)[1]].items =
                SelectSeq(@, LAMBDA x : x # product_id)]

\* POST /add with the cookie user_token; a request without cookie gets a
\* new token, which is the parameter fresh.
add_to_favorites(user_token, fresh, product_id) ==
    LET token == IF user_token = None THEN fresh ELSE user_token[1]
        user_hash == hash_user_token(token)
        items == ItemsOf(user_hash)
        found == ObjectIdIsValid(product_id) /\ Known(product_id)
    IN  /\ favorites' =
              IF ~found THEN favorites
              ELSE IF InItems(items, product_id) THEN favorites
              ELSE Pushed(user_hash, product_id)
        /\ favorite' =
              Some([op |-> "add_to_favorites", user |-> Some(token),
                    product_id |-> product_id,
                    answer |->
                        IF ~ObjectIdIsValid(product_id) THEN InternalServerError
                        ELSE IF ~Known(product_id) THEN HTTPException(404)
                        ELSE IF InItems(items, product_id)
                        THEN [status |-> 200,
                              message |-> "Product already in favorites"]
                        ELSE [status |-> 200, message |-> "Added to favorites",
                              count |-> Len(items) + 1]])
        /\ UNCHANGED <<products, request, response, detail, reviews,
                     comparison_sessions, comparison, reply, inflight>>

\* DELETE /remove/{product_id}: modified_count is 0 only when no document
\* matched, since updated_at is set on every matched document.
remove_from_favorites(user_token, product_id) ==
    LET user_hash == hash_user_token(user_token[1])
    IN  /\ favorites' = IF user_token = None THEN favorites
                        ELSE Pulled(user_hash, product_id)
        /\ favorite' =
              Some([op |-> "remove_from_favorites", user |-> user_token,
                    product_id |-> product_id,
                    answer |->
                        IF user_token = None THEN HTTPException(400)
                        ELSE IF FindFavorites(user_hash) = None
                        THEN [status |-> 200, message |-> "Product not in favorites"]
                        ELSE [status |-> 200, message |-> "Removed from favorites",
                              count |-> Len(SelectSeq(ItemsOf(user_hash),
                                                      LAMBDA x : x # product_id))]])
        /\ UNCHANGED <<products, request, response, detail, reviews,
                     comparison_sessions, comparison, reply, inflight>>

\* POST /toggle
toggle_favorite(user_token, fresh, product_id) ==
    LET token == IF user_token = None THEN fresh ELSE user_token[1]
        user_hash == hash_user_token(token)
        items == ItemsOf(user_hash)
        is_favorite == InItems(items, product_id)
        found == ObjectIdIsValid(product_id) /\ Known(product_id)
    IN  /\ favorites' =
              IF is_favorite THEN Pulled(user_hash, product_id)
              ELSE IF found THEN Pushed(user_hash, product_id)
              ELSE favorites
        /\ favorite' =
              Some([op |-> "toggle_favorite", user |-> Some(token),
                    product_id |-> product_id,
                    answer |->
                        IF is_favorite
                        THEN [status |-> 200, action |-> "removed",
                              is_favorite |-> FALSE,
                              count |-> Len(SelectSeq(items, LAMBDA x : x # product_id))]
                        ELSE IF ~ObjectIdIsValid(product_id) THEN InternalServerError
                        ELSE IF ~Known(product_id) THEN HTTPException(404)
                        ELSE [status |-> 200, action |-> "added",
                              is_favorite |-> TRUE, count |-> Len(items) + 1]])
        /\ UNCHANGED <<products, request, response, detail, reviews,
                     comparison_sessions, comparison, reply, inflight>>

\* DELETE /clear
clear_favorites(user_token) ==
    LET user_hash == hash_user_token(user_token[1])
    IN  /\ favorites' =
              IF user_token = None \/ FindFavorites(user_hash) = None THEN favorites
              ELSE [favorites EXCEPT ![FindFavorites(user_hash)[1]].items = <<>>]
        /\ favorite' =
              Some([op |-> "clear_favorites", user |-> user_token,
                    product_id |-> Malformed,
                    answer |-> IF user_token = None THEN HTTPException(400)
                               ELSE [status |-> 200, message |-> "Favorites cleared",
                                     count |-> 0]])
        /\ UNCHANGED <<products, request, response, detail, reviews,
                     comparison_sessions, comparison, reply, inflight>>

\* GET /check/{product_id}
check_favorite(user_token, product_id) ==
    /\ favorite' =
          Some([op |-> "check_favorite", user |-> user_token,
                product_id |-> product_id,
                answer |->
                    IF user_token = None
                       \/ FindFavorites(hash_user_token(user_token[1])) = None
                    THEN [status |-> 200, is_favorite |-> FALSE]
                    ELSE [status |-> 200,
                          is_favorite |->
                              InItems(ItemsOf(hash_user_token(user_token[1])),
                                      product_id)]])
    /\ UNCHANGED <<products, request, response, detail, reviews,
                 comparison_sessions, comparison, favorites, reply,
                 inflight>>

\* GET /count
get_favorites_count(user_token) ==
    /\ favorite' =
          Some([op |-> "get_favorites_count", user |-> user_token,
                product_id |-> Malformed,
                answer |->
                    [status |-> 200,
                     count |-> IF user_token = None THEN 0
                               ELSE Len(ItemsOf(hash_user_token(user_token[1])))]])
    /\ UNCHANGED <<products, request, response, detail, reviews,
                 comparison_sessions, comparison, favorites, reply,
                 inflight>>

(***************************************************************************)
(* add_to_favorites and toggle_favorite as the event loop runs them.  A     *)
(* suspended request waits for one operation on db.favorites; pc names it,  *)
(* and items is the local user_favorites["items"].  A step runs the         *)
(* operation and the handler up to its next operation on db.favorites.      *)
(* The lookups in db.products, which no request writes, run with the code   *)
(* before them.                                                             *)
(***************************************************************************)
\* The suspended request of a handler.
Suspended(op, pc, token, product_id, items) ==
    [op |-> op, pc |-> pc, user |-> token, product_id |-> product_id,
     items |-> items]

\* The answer of a favorites handler to a request.
FavoriteAnswer(r, answer) ==
    Some([op |-> r.op, user |-> Some(r.user), product_id |-> r.product_id,
          answer |-> answer])

\* insert_one of a new favorites document.
Inserted(user_hash) == Append(favorites, [user_id |-> user_hash, items |-> <<>>])

\* Lines 95-112 of add_to_favorites: a malformed id raises, no product is
\* 404, else the request waits for find_one of line 115.
add_to_favorites_begin(user_token, fresh, product_id) ==
    LET token == IF user_token = None THEN fresh ELSE user_token[1]
        r == Suspended("add_to_favorites", "find_one", token, product_id, <<>>)
    IN  /\ IF ~ObjectIdIsValid(product_id)
           THEN favorite' = FavoriteAnswer(r, InternalServerError) /\ inflight' = inflight
           ELSE IF ~Known(product_id)
           THEN favorite' = FavoriteAnswer(r, HTTPException(404)) /\ inflight' = inflight
           ELSE favorite' = favorite /\ inflight' = Append(inflight, r)
        /\ UNCHANGED <<products, request, response, detail, reviews,
                     comparison_sessions, comparison, favorites, reply>>

\* Lines 115-152 of add_to_favorites for the i-th suspended request: find_one
\* and the test of the items read, insert_one of a document when none was
\* found, update_one with $push and the answer.
add_to_favorites_resume(i) ==
    /\ i \in 1..Len(inflight)
    /\ inflight[i].op = "add_to_favorites"
    /\ LET r == inflight[i]
           user_hash == hash_user_token(r.user)
           goes(pc, items) ==
               /\ inflight' = [inflight EXCEPT ![i].pc = pc, ![i].items = items]
               /\ favorite' = favorite
           answers(answer) ==
               /\ inflight' = Without(inflight, i)
               /\ favorite' = FavoriteAnswer(r, answer)
       IN  CASE r.pc = "find_one" ->
                  /\ favorites' = favorites
                  /\ IF FindFavorites(user_hash) = None THEN goes("insert_one", <<>>)
                     ELSE IF InItems(ItemsOf(user_hash), r.product_id)
                     THEN answers([status |-> 200,
                                   message |-> "Product already in favorites"])
                     ELSE goes("update_one", ItemsOf(user_hash))
             [] r.pc = "insert_one" ->
                  /\ favorites' = Inserted(user_hash)
                  /\ goes("update_one", <<>>)
             [] r.pc = "update_one" ->
                  /\ favorites' = Pushed(user_hash, r.product_id)
                  /\ answers([status |-> 200, message |-> "Added to favorites",
                              count |-> Len(r.items) + 1])
    /\ UNCHANGED <<products, request, response, detail, reviews,
                 comparison_sessions, comparison, reply>>

\* Lines 199-213 of toggle_favorite: the request waits for find_one.
toggle_favorite_begin(user_token, fresh, product_id) ==
    LET token == IF user_token = None THEN fresh ELSE user_token[1]
    IN  /\ inflight' =
              Append(inflight,
                     Suspended("toggle_favorite", "find_one", token, product_id, <<>>))
        /\ UNCHANGED <<products, request, response, detail, reviews,
                     comparison_sessions, comparison, favorites, favorite, reply>>

\* Lines 213-270 of toggle_favorite for the i-th suspended request: find_one
\* and the choice of the branch, update_one with $pull, or insert_one and
\* update_one with $push, then find_one for the count and the answer.  In
\* the request waiting for the count, items is [] after "removed" and
\* [product_id] after "added".
toggle_favorite_resume(i) ==
    /\ i \in 1..Len(inflight)
    /\ inflight[i].op = "toggle_favorite"
    /\ LET r == inflight[i]
           user_hash == hash_user_token(r.user)
           goes(pc, items) ==
               /\ inflight' = [inflight EXCEPT ![i].pc = pc, ![i].items = items]
               /\ favorite' = favorite
           answers(answer) ==
               /\ inflight' = Without(inflight, i)
               /\ favorite' = FavoriteAnswer(r, answer)
       IN  CASE r.pc = "find_one" ->
                  /\ favorites' = favorites
                  /\ IF InItems(ItemsOf(user_hash), r.product_id)
                     THEN goes("pull", ItemsOf(user_hash))
                     ELSE IF ~ObjectIdIsValid(r.product_id)
                     THEN answers(InternalServerError)
                     ELSE IF ~Known(r.product_id) THEN answers(HTTPException(404))
                     ELSE IF FindFavorites(user_hash) = None
                     THEN goes("insert_one", <<>>)
                     ELSE goes("update_one", ItemsOf(user_hash))
             [] r.pc = "pull" ->
                  /\ favorites' = Pulled(user_hash, r.product_id)
                  /\ goes("count", <<>>)
             [] r.pc = "insert_one" ->
                  /\ favorites' = Inserted(user_hash)
                  /\ goes("update_one", <<>>)
             [] r.pc = "update_one" ->
                  /\ favorites' = Pushed(user_hash, r.product_id)
                  /\ goes("count", <<r.product_id>>)
             [] r.pc = "count" ->
                  /\ favorites' = favorites
                  /\ answers([status |-> 200,
                              action |-> IF r.items = <<>> THEN "removed" ELSE "added",
                              is_favorite |-> r.items # <<>>,
                              count |-> Len(ItemsOf(user_hash))])
    /\ UNCHANGED <<products, request, response, detail, reviews,
                 comparison_sessions, comparison, reply>>

(***************************************************************************)
(* Variants, provenance, offers and review summary                         *)
(***************************************************************************)
\* db.variants in the order of the products: the pairs <<p, v>>.  The id
\* string of a variant is its position in this list.
AllVariants ==
    LET upto[i \in 0..Len(products)] ==
            IF i = 0 THEN <<>>
            ELSE upto[i - 1] \o [v \in 1..Len(products[i].variants) |-> <<i, v>>]
    IN  upto[Len(products)]

\* GET /api/v1/products/{product_id}/variants
get_product_variants(product_id) ==
    /\ reply' =
          Some([op |-> "get_product_variants", id |-> product_id,
                answer |->
                    IF ~ObjectIdIsValid(product_id) THEN HTTPException(400)
                    ELSE [status |-> 200,
                          total |-> IF Known(product_id)
                                    THEN Len(ToList(products[product_id].variants, 100))
                                    ELSE 0]])
    /\ UNCHANGED <<products, request, response, detail, reviews,
                 comparison_sessions, comparison, favorites, favorite,
                 inflight>>

\* GET /api/v1/products/{product_id}/specs/{spec_path}/provenance for a
\* spec_path of one key.
get_spec_provenance(product_id, spec_path) ==
    LET specs == products[product_id].specs
        spec == Get(specs, spec_path)
    IN  /\ reply' =
              Some([op |-> "get_spec_provenance", id |-> product_id,
                    answer |->
                        IF ~ObjectIdIsValid(product_id) THEN HTTPException(400)
                        ELSE IF ~Known(product_id) THEN HTTPException(404)
                        ELSE IF ~HasKey(specs, spec_path)
                                \/ (~spec.isdict /\ spec.sc = NoneVal)
                        THEN HTTPException(404)
                        ELSE [status |-> 200, field |-> spec_path,
                              value |-> IF ~spec.isdict THEN spec.sc
                                        ELSE IF HasKey(spec.items, "value")
                                        THEN Get(spec.items, "value")
                                        ELSE DictVal(spec.items)]])
        /\ UNCHANGED <<products, request, response, detail, reviews,
                     comparison_sessions, comparison, favorites, favorite,
                     inflight>>

\* The length passed to to_list() by get_variant_offers.
PageSize == 100

\* db.offers.insert_many(all_offers), the offers being those of variant v
\* of the product at position p
InsertManyOffers(p, v, offers) ==
    /\ p \in 1..Len(products)
    /\ v \in 1..Len(products[p].variants)
    /\ products' = [products EXCEPT ![p].variants[v] = @ \o offers]
    /\ UNCHANGED <<request, response, detail, reviews, comparison_sessions,
                 comparison, favorites, favorite, reply, inflight>>

\* next((o for o in offers if o["condition"] == condition), None)
FirstOf(offers, condition) ==
    LET hits == {i \in 1..Len(offers) : offers[i].condition = condition}
    IN  IF hits = {} THEN None
        ELSE Some(offers[CHOOSE i \in hits : \A j \in hits : i <= j])

\* find(...).sort("price_amount", 1).to_list(100): the offers of the variant
\* by price, offers of one price in their stored order, cut to a page.
OffersByPrice(offers) ==
    LET rank(i) ==
            Cardinality({j \in 1..Len(offers) :
                \/ offers[j].price_amount < offers[i].price_amount
                \/ offers[j].price_amount = offers[i].price_amount /\ j <= i})
        sorted == [k \in 1..Len(offers) |->
                      offers[CHOOSE i \in 1..Len(offers) : rank(i) = k]]
    IN  ToList(sorted, PageSize)

\* GET /api/v1/offers/variant/{variant_id}; round(price_amount, 2) leaves a
\* price in half units as it is.
get_variant_offers(variant_id) ==
    LET offers == IF variant_id \in 1..Len(AllVariants)
                  THEN OffersByPrice(products[AllVariants[variant_id][1]]
                                        .variants[AllVariants[variant_id][2]])
                  ELSE <<>>
    IN  /\ reply' =
              Some([op |-> "get_variant_offers", id |-> variant_id,
                    answer |->
                        IF ~ObjectIdIsValid(variant_id) THEN HTTPException(400)
                        ELSE [status |-> 200, offers |-> offers,
                              best_new |-> FirstOf(offers, "new"),
                              best_refurbished |-> FirstOf(offers, "refurbished"),
                              total_offers |-> Len(offers)]])
        /\ UNCHANGED <<products, request, response, detail, reviews,
                     comparison_sessions, comparison, favorites, favorite,
                     inflight>>

\* GET /api/v1/reviews/product/{product_id}/summary
get_review_summary(product_id) ==
    LET found == Min2(review_count(product_id), 100)
    IN  /\ reply' =
              Some([op |-> "get_review_summary", id |-> product_id,
                    answer |->
                        IF ~ObjectIdIsValid(product_id) THEN HTTPException(400)
                        ELSE IF ~Known(product_id) THEN HTTPException(404)
                        ELSE [status |-> 200,
                              coverage_level |->
                                  IF found = 0 THEN "none"
                                  ELSE IF found >= 10 THEN "high"
                                  ELSE IF found >= 5 THEN "medium"
                                  ELSE "low"]])
        /\ UNCHANGED <<products, request, response, detail, reviews,
                     comparison_sessions, comparison, favorites, favorite,
                     inflight>>

\* The store is empty and no request has been answered.
Init ==
    /\ products = <<>>
    /\ request = None
    /\ response = None
    /\ detail = None
    /\ reviews = <<>>
    /\ comparison_sessions = <<>>
    /\ comparison = None
    /\ favorites = <<>>
    /\ favorite = None
    /\ reply = None
    /\ inflight = <<>>

(***************************************************************************)
(* Documents and requests of the model                                     *)
(***************************************************************************)
\* The number of documents (products, variants, offers) the seed scripts insert.
MaxDocs == 5

MaxLimit == 2

Phone == "phone"

Brand == <<"A", "b">>

Doc(rating, popularity_rank, price_range, specs) ==
    [category |-> Phone, brand |-> Brand, rating |-> rating,
     popularity_rank |-> popularity_rank, price_range |-> price_range,
     default_variant_id |-> None, specs |-> specs, variants |-> <<>>]

Offer(condition, price_amount) ==
    [condition |-> condition, price_amount |-> price_amount]

Query(budget_max, sort, limit) ==
    [category |-> None, brand |-> None, min_rating |-> None,
     budget_max |-> budget_max, sort |-> sort, limit |-> limit]

\* The number of documents in the store.
StoreSize ==
    LET size(product) ==
            LET upto[i \in 0..Len(product.variants)] ==
                    IF i = 0 THEN 1
                    ELSE upto[i - 1] + 1 + Len(product.variants[i])
            IN  upto[Len(product.variants)]
        upto[i \in 0..Len(products)] ==
            IF i = 0 THEN 0 ELSE upto[i - 1] + size(products[i])
    IN  upto[Len(products)]

\* The seed scripts fill the store before the service answers requests.
CanInsert == request = None /\ detail = None /\ StoreSize < MaxDocs

\* Prices with and without a fractional part: 649.5, 700, 500.
PriceOffers ==
    {Offer("new", 1299), Offer("new", 1400), Offer("refurbished", 1000)}

\* A product without price_range (seed_data.py) or with one (seed_bestbuy_data.py).
PriceDocs ==
    {Doc(None, None, pr, <<>>) :
        pr \in {None, Some([min |-> 1299, max |-> 1401]), Some([min |-> 0, max |-> 0])}}

PriceQueries ==
    {Query(b, sort, limit) :
        b \in {None, Some(0), Some(680)}, sort \in {"rating"},
        limit \in 1..MaxLimit}

NextPrice ==
    \/ \E doc \in PriceDocs : CanInsert /\ InsertProduct(doc)
    \/ \E p \in 1..Len(products) : CanInsert /\ InsertVariant(p)
    \/ \E p \in 1..Len(products) :
          \E v \in 1..Len(products[p].variants) : \E offer \in PriceOffers :
              CanInsert /\ InsertOffer(p, v, offer)
    \/ \E q \in PriceQueries : search_products(q)

SpecPrice == Init /\ [][NextPrice]_vars

(***************************************************************************)
(* A product with more variants than one fetch returns.  Whole prices      *)
(* only: 600, 650, 700.                                                    *)
(***************************************************************************)
CatalogProducts == 1

CatalogVariants == 11

CatalogOffers == 1

CatalogDocs ==
    {Doc(None, None, pr, <<>>) : pr \in {None, Some([min |-> 1200, max |-> 1200])}}

CatalogOfferSet == {Offer("new", 1300), Offer("new", 1400)}

CatalogQueries == {Query(b, "rating", 1) : b \in {None, Some(650)}}

\* seed_data.py inserts a variant and then its offers, variant after variant.
NextCatalog ==
    \/ \E doc \in CatalogDocs :
          /\ request = None
          /\ Len(products) < CatalogProducts
          /\ InsertProduct(doc)
    \/ \E p \in 1..Len(products) :
          /\ request = None
          /\ Len(products[p].variants) < CatalogVariants
          /\ InsertVariant(p)
    \/ \E p \in 1..Len(products) : \E offer \in CatalogOfferSet :
          /\ request = None
          /\ StoreSize - Len(products) - Len(products[p].variants) < CatalogOffers
          /\ InsertOffer(p, Len(products[p].variants), offer)
    \/ \E q \in CatalogQueries : search_products(q)

SpecCatalog == Init /\ [][NextCatalog]_vars

(***************************************************************************)
(* Products that differ in rating, popularity rank and price_range, for    *)
(* the scoring and the sort.                                               *)
(***************************************************************************)
MaxRanked == 2

\* Ratings None and 4.5; ranks None, 1, 100 and 1000; price ranges None,
\* 649.5 to 700.5 and 650.5 to 650.5.
RankDocs ==
    {Doc(rating, popularity_rank, pr, <<>>) :
        rating \in {None, Some(45)},
        popularity_rank \in {None, Some(1), Some(100), Some(1000)},
        pr \in {None, Some([min |-> 1299, max |-> 1401]),
                Some([min |-> 1301, max |-> 1301])}}

RankQueries ==
    {Query(b, sort, limit) :
        b \in {None, Some(680)}, sort \in {"rating", "price", "popularity"},
        limit \in {1, 2}}

NextRank ==
    \/ \E doc \in RankDocs :
          /\ request = None
          /\ Len(products) < MaxRanked
          /\ InsertProduct(doc)
    \/ \E q \in RankQueries : search_products(q)

SpecRank == Init /\ [][NextRank]_vars

(***************************************************************************)
(* Products that differ in their specs, for the spec normalization.        *)
(***************************************************************************)
MaxSpecProducts == 1

MaxSpecs == 2

SpecKeys == {"ram", "battery"}

\* Scalars, tagged values, ranges and free-form dicts, with truthy and
\* falsy values and with metadata keys.
SpecValues ==
    {Scalar(IntVal(8)), Scalar(IntVal(0)), Scalar(StrVal("5G")), Scalar(StrVal("")),
     Scalar(BoolVal(FALSE)),
     Dict(<<Item("value", StrVal("Android 13")), Item("confidence", IntVal(1))>>),
     Dict(<<Item("value", IntVal(0)), Item("sources", ListVal(2))>>),
     Dict(<<Item("min", IntVal(128)), Item("max", IntVal(512)), Item("value", IntVal(256))>>),
     Dict(<<Item("min", IntVal(128)), Item("max", IntVal(512))>>),
     Dict(<<Item("min", IntVal(128))>>),
     Dict(<<Item("capacity_mah", IntVal(3900)), Item("wired_charging_w", IntVal(25))>>),
     Dict(<<Item("wireless_charging_w", IntVal(0)), Item("capacity_mah", IntVal(3900))>>),
     Dict(<<Item("unit", StrVal("GB")), Item("amount", IntVal(8))>>),
     Dict(<<Item("confidence", IntVal(1)), Item("sources", ListVal(2))>>),
     Dict(<<>>)}

\* The specs dicts with at most MaxSpecs of the keys.
SpecDicts ==
    LET grow(dicts) ==
            {Append(d, Item(key, value)) :
                d \in {x \in dicts : Len(x) < MaxSpecs},
                key \in SpecKeys, value \in SpecValues}
        reach[n \in 0..MaxSpecs] ==
            IF n = 0 THEN {<<>>} ELSE reach[n - 1] \cup grow(reach[n - 1])
    IN  {d \in reach[MaxSpecs] : Cardinality(Keys(d)) = Len(d)}

SpecDocs == {Doc(None, None, None, specs) : specs \in SpecDicts}

NextSpecs ==
    \/ \E doc \in SpecDocs :
          /\ request = None /\ detail = None
          /\ Len(products) < MaxSpecProducts
          /\ InsertProduct(doc)
    \/ \E p \in 1..Len(products) : get_product(p)
    \/ search_products(Query(None, "rating", 1))

SpecSpecs == Init /\ [][NextSpecs]_vars

(***************************************************************************)
(* Products to compare: with and without price_range, with different spec  *)
(* keys, falsy spec values and nested dicts, with a default variant and    *)
(* offers.                                                                 *)
(***************************************************************************)
MaxCompared == 2

\* The documents (variants, offers, reviews) besides the products.
MaxAttached == 2

FrontCamera == DictVal(<<Item("mp", IntVal(12))>>)

MatrixSpecs ==
    {<<>>,
     <<Item("ram", Scalar(IntVal(8)))>>,
     <<Item("ram", Scalar(IntVal(0)))>>,
     <<Item("ram", Scalar(BoolVal(FALSE)))>>,
     <<Item("ram", Scalar(StrVal("")))>>,
     <<Item("storage", Scalar(IntVal(256)))>>,
     <<Item("cameras", Dict(<<Item("value", FrontCamera)>>))>>,
     <<Item("cameras", Dict(<<Item("front", FrontCamera)>>))>>,
     <<Item("cameras", Dict(<<Item("value", DictVal(<<Item("front", FrontCamera)>>))>>))>>}

\* Price ranges None and 599.5 to 600.
MatrixDocs ==
    {Doc(None, None, pr, specs) :
        pr \in {None, Some([min |-> 1199, max |-> 1200])}, specs \in MatrixSpecs}

\* Offers at 650 and 500.
MatrixOffers == {Offer("new", 1300), Offer("refurbished", 1000)}

\* product_ids of GET /compare: one product, two products, a product twice.
MatrixRequests == {<<1>>, <<1, 2>>, <<2, 2>>}

Attached == StoreSize - Len(products) + Len(reviews)

CanAttach == comparison = None /\ Attached < MaxAttached

NextMatrix ==
    \/ \E doc \in MatrixDocs :
          /\ comparison = None
          /\ Len(products) < MaxCompared
          /\ InsertProduct(doc)
    \/ \E p \in 1..Len(products) : CanAttach /\ InsertVariant(p)
    \/ \E p \in 1..Len(products) : \E v \in 1..Len(products[p].variants) :
          /\ comparison = None
          /\ products[p].default_variant_id = None
          /\ SetDefaultVariant(p, v)
    \/ \E p \in 1..Len(products) :
          \E v \in 1..Len(products[p].variants) : \E offer \in MatrixOffers :
              CanAttach /\ InsertOffer(p, v, offer)
    \/ \E p \in 1..Len(products) : CanAttach /\ InsertReview(p)
    \/ \E ids \in MatrixRequests : compare_products(ids)

SpecMatrix == Init /\ [][NextMatrix]_vars

(***************************************************************************)
(* Comparison sessions and direct comparisons of up to five products, one  *)
(* of the ids naming no product.                                           *)
(***************************************************************************)
MaxSessionProducts == 5

MaxSessions == 1

SessionDoc == Doc(None, None, Some([min |-> 1200, max |-> 1200]), <<>>)

\* A well-formed id that names no product.
Unknown == MaxSessionProducts + 1

\* product_ids of GET /compare: up to five ids, with and without Unknown.
SessionRequests ==
    {<<1>>, <<1, 2, 3, 4>>, <<1, 2, 3, 4, 5>>, <<1, 1, 1, 1, 1>>,
     <<Unknown>>, <<1, Unknown>>}

NextSessions ==
    \/ /\ comparison = None
       /\ Len(products) < MaxSessionProducts
       /\ InsertProduct(SessionDoc)
    \/ Len(comparison_sessions) < MaxSessions /\ create_comparison_session
    \/ \E session_id \in 1..MaxSessions : get_comparison_session(session_id)
    \/ \E session_id \in 1..Len(comparison_sessions) :
          \E product_id \in 1..Unknown : add_to_comparison(session_id, product_id)
    \/ \E session_id \in 1..Len(comparison_sessions) :
          \E product_id \in 1..MaxSessionProducts :
              remove_from_comparison(session_id, product_id)
    \/ \E session_id \in 1..Len(comparison_sessions) : clear_comparison(session_id)
    \/ \E ids \in SessionRequests : compare_products(ids)

SpecSessions == Init /\ [][NextSessions]_vars

(***************************************************************************)
(* Every operation that takes an id, with a malformed id, the id of a      *)
(* stored document and a well-formed id that names nothing.                *)
(***************************************************************************)
MaxKnown == 1

ErrorDoc ==
    Doc(None, None, Some([min |-> 1200, max |-> 1200]),
        <<Item("ram", Scalar(IntVal(8)))>>)

\* Malformed, the ids of the stored documents, and one more.
ErrorIds == Malformed..(MaxKnown + 1)

Tokens == {"u1"}

NextErrors ==
    \/ /\ detail = None /\ reply = None /\ comparison = None /\ favorite = None
       /\ Len(products) < MaxKnown
       /\ InsertProduct(ErrorDoc)
    \/ \E p \in 1..Len(products) :
          /\ detail = None /\ reply = None /\ comparison = None /\ favorite = None
          /\ Len(products[p].variants) < MaxKnown
          /\ InsertVariant(p)
    \/ /\ detail = None /\ reply = None /\ comparison = None /\ favorite = None
       /\ Len(comparison_sessions) < MaxSessions
       /\ create_comparison_session
    \/ \E id \in ErrorIds : get_product(id)
    \/ \E id \in ErrorIds : get_product_variants(id)
    \/ \E id \in ErrorIds : get_spec_provenance(id, "ram")
    \/ \E id \in ErrorIds : get_variant_offers(id)
    \/ \E id \in ErrorIds : get_review_summary(id)
    \/ \E id \in ErrorIds : compare_products(<<id>>)
    \/ \E session_id \in 1..Len(comparison_sessions) : \E id \in ErrorIds :
          add_to_comparison(session_id, id)
    \/ \E token \in Tokens : \E id \in ErrorIds :
          add_to_favorites(Some(token), token, id)
    \/ \E token \in Tokens : \E id \in ErrorIds :
          toggle_favorite(Some(token), token, id)

SpecErrors == Init /\ [][NextErrors]_vars

(***************************************************************************)
(* Searches and comparisons between the writes of the seed scripts.        *)
(***************************************************************************)
FrameProducts == 2

FrameAttached == 2

\* Price ranges None and 599.5 to 700.5.
FrameDocs ==
    {Doc(None, None, pr, <<>>) : pr \in {None, Some([min |-> 1199, max |-> 1401])}}

FrameQueries == {Query(b, "rating", 2) : b \in {None, Some(650)}}

FrameRequests == {<<1>>, <<1, 2>>}

NextFrame ==
    \/ \E doc \in FrameDocs : Len(products) < FrameProducts /\ InsertProduct(doc)
    \/ \E p \in 1..Len(products) : Attached < FrameAttached /\ InsertVariant(p)
    \/ \E p \in 1..Len(products) :
          \E v \in 1..Len(products[p].variants) : \E offer \in MatrixOffers :
              Attached < FrameAttached /\ InsertOffer(p, v, offer)
    \/ \E p \in 1..Len(products) : Attached < FrameAttached /\ InsertReview(p)
    \/ \E q \in FrameQueries : search_products(q)
    \/ \E ids \in FrameRequests : compare_products(ids)

SpecFrame == Init /\ [][NextFrame]_vars

(***************************************************************************)
(* Two users, with and without cookie, and their favorites.                *)
(***************************************************************************)
MaxFavProducts == 2

FavTokens == {"u1", "u2"}

\* The cookie user_id of a request: absent or the token of a user.
Cookies == {None} \cup {Some(token) : token \in FavTokens}

\* The tokens uuid4 can still produce: those without a favorites document.
Fresh == {token \in FavTokens : FindFavorites(hash_user_token(token)) = None}

\* The product ids of the requests: the stored products and one more.
FavIds == 1..(MaxFavProducts + 1)

NextFavorites ==
    \/ /\ favorite = None
       /\ Len(products) < MaxFavProducts
       /\ InsertProduct(SessionDoc)
    \/ \E cookie \in Cookies : \E fresh \in FavTokens : \E id \in FavIds :
          /\ cookie = None => fresh \in Fresh
          /\ cookie # None => fresh = cookie[1]
          /\ add_to_favorites(cookie, fresh, id)
    \/ \E cookie \in Cookies : \E fresh \in FavTokens : \E id \in FavIds :
          /\ cookie = None => fresh \in Fresh
          /\ cookie # None => fresh = cookie[1]
          /\ toggle_favorite(cookie, fresh, id)
    \/ \E cookie \in Cookies : \E id \in FavIds : remove_from_favorites(cookie, id)
    \/ \E cookie \in Cookies : clear_favorites(cookie)
    \/ \E cookie \in Cookies : \E id \in FavIds : check_favorite(cookie, id)
    \/ \E cookie \in Cookies : get_favorites_count(cookie)

SpecFavorites == Init /\ [][NextFavorites]_vars

(***************************************************************************)
(* A variant with offers of three conditions, inserted one by one or as    *)
(* one batch that is longer than a page.                                   *)
(***************************************************************************)
MaxOffers == 3

\* Offers at 650, 649.5, 500 and 550.
VariantOffers ==
    {Offer("new", 1300), Offer("new", 1299), Offer("refurbished", 1000),
     Offer("open-box", 1100)}

\* A page of refurbished offers at 500 followed by a new offer at 650.
BulkOffers ==
    [i \in 1..(PageSize + 1) |->
        IF i <= PageSize THEN Offer("refurbished", 1000) ELSE Offer("new", 1300)]

NextOffers ==
    \/ reply = None /\ Len(products) < 1 /\ InsertProduct(SessionDoc)
    \/ \E p \in 1..Len(products) :
          reply = None /\ Len(products[p].variants) < 1 /\ InsertVariant(p)
    \/ \E p \in 1..Len(products) :
          \E v \in 1..Len(products[p].variants) : \E offer \in VariantOffers :
              /\ reply = None
              /\ Len(products[p].variants[v]) < MaxOffers
              /\ InsertOffer(p, v, offer)
    \/ \E p \in 1..Len(products) : \E v \in 1..Len(products[p].variants) :
          /\ reply = None
          /\ products[p].variants[v] = <<>>
          /\ InsertManyOffers(p, v, BulkOffers)
    \/ \E id \in Malformed..2 : get_variant_offers(id)

SpecOffers == Init /\ [][NextOffers]_vars

(***************************************************************************)
(* Concurrent requests on one comparison session: up to MaxInflight add    *)
(* requests are suspended at a time, and remove and clear requests are     *)
(* served in between.                                                      *)
(***************************************************************************)
MaxInflight == 2

NextInterleaved ==
    \/ /\ comparison_sessions = <<>>
       /\ Len(products) < MaxSessionProducts
       /\ InsertProduct(SessionDoc)
    \/ Len(comparison_sessions) < MaxSessions /\ create_comparison_session
    \/ \E session_id \in 1..MaxSessions : \E product_id \in Malformed..Unknown :
          /\ Len(inflight) < MaxInflight
          /\ add_to_comparison_begin(session_id, product_id)
    \/ \E i \in 1..MaxInflight : add_to_comparison_resume(i)
    \/ \E session_id \in 1..Len(comparison_sessions) :
          \E product_id \in 1..MaxSessionProducts :
              remove_from_comparison(session_id, product_id)
    \/ \E session_id \in 1..Len(comparison_sessions) : clear_comparison(session_id)

SpecInterleaved == Init /\ [][NextInterleaved]_vars

(***************************************************************************)
(* Concurrent requests for few products on the one session there is: the   *)
(* same product is added by several suspended requests, removed and added  *)
(* again.                                                                  *)
(***************************************************************************)
MaxAddedProducts == 2

NextDuplicates ==
    \/ /\ comparison_sessions = <<>>
       /\ Len(products) < MaxAddedProducts
       /\ InsertProduct(SessionDoc)
    \/ comparison_sessions = <<>> /\ create_comparison_session
    \/ \E product_id \in Malformed..(MaxAddedProducts + 1) :
          /\ Len(inflight) < MaxInflight
          /\ add_to_comparison_begin(1, product_id)
    \/ \E i \in 1..MaxInflight : add_to_comparison_resume(i)
    \/ \E product_id \in 1..MaxAddedProducts :
          comparison_sessions # <<>> /\ remove_from_comparison(1, product_id)
    \/ comparison_sessions # <<>> /\ clear_comparison(1)

SpecDuplicates == Init /\ [][NextDuplicates]_vars

(***************************************************************************)
(* Concurrent add and toggle requests of the users on their favorites.     *)
(***************************************************************************)
MaxFavItems == 3

\* The number of items of all favorites documents.
StoredItems ==
    LET upto[i \in 0..Len(favorites)] ==
            IF i = 0 THEN 0 ELSE upto[i - 1] + Len(favorites[i].items)
    IN  upto[Len(favorites)]

\* A further request may start.
CanStart == Len(inflight) < MaxInflight /\ StoredItems + Len(inflight) < MaxFavItems

NextConcurrent ==
    \/ /\ favorite = None /\ inflight = <<>>
       /\ Len(products) < MaxFavProducts
       /\ InsertProduct(SessionDoc)
    \/ \E token \in FavTokens : \E id \in FavIds :
          CanStart /\ add_to_favorites_begin(Some(token), token, id)
    \/ \E i \in 1..MaxInflight : add_to_favorites_resume(i)
    \/ \E token \in FavTokens : \E id \in FavIds :
          CanStart /\ toggle_favorite_begin(Some(token), token, id)
    \/ \E i \in 1..MaxInflight : toggle_favorite_resume(i)

SpecConcurrent == Init /\ [][NextConcurrent]_vars

(***************************************************************************)
(* Products inside and outside a budget, more of them than a search        *)
(* fetches.                                                                *)
(***************************************************************************)
MaxBudgetProducts == 4

\* Products at 600 and at 700.
BudgetDocs ==
    {Doc(None, None, Some([min |-> price, max |-> price]), <<>>) :
        price \in {1200, 1400}}

BudgetQueries ==
    {Query(b, "rating", limit) : b \in {None, Some(680)}, limit \in 1..MaxLimit}

NextBudget ==
    \/ \E doc \in BudgetDocs :
          /\ request = None
          /\ Len(products) < MaxBudgetProducts
          /\ InsertProduct(doc)
    \/ \E q \in BudgetQueries : search_products(q)

SpecBudget == Init /\ [][NextBudget]_vars

(***************************************************************************)
(* Vocabulary of the properties                                            *)
(***************************************************************************)
\* The prices of all new-condition offers of all variants of a product.
NewPrices(product) ==
    UNION {{product.variants[v][o].price_amount :
                o \in {k \in 1..Len(product.variants[v]) :
                          product.variants[v][k].condition = "new"}} :
            v \in 1..Len(product.variants)}

Lowest(prices) == CHOOSE x \in prices : \A y \in prices : x <= y

Highest(prices) == CHOOSE x \in prices : \A y \in prices : x >= y

Answered == request # None /\ response # None

Returned == response[1].products

\* A reported whole price in the half units of the stored prices.
Halves(range) == [min |-> 2 * range.min, max |-> 2 * range.max]

IsReturned(id) == \E i \in 1..Len(Returned) : Returned[i].product_id = id

\* C1: with budget_max set, a candidate that has no new-condition offer
\* and no price_range is in the returned list (whenever the list is not
\* cut by the limit).
C1_UnknownPriceRetained ==
    (Answered /\ BudgetSet(request[1].budget_max)) =>
        LET cands == Candidates(request[1])
        IN  \A k \in 1..Len(cands) :
                (/\ Len(cands) <= request[1].limit
                 /\ NewPrices(products[cands[k]]) = {}
                 /\ products[cands[k]].price_range = None)
                    => IsReturned(cands[k])

\* C2: for a returned product with a new-condition offer, the reported
\* min and max are the lowest and the highest price over all its
\* new-condition offers.
C2_RangeOverAllNewOffers ==
    Answered =>
        \A i \in 1..Len(Returned) :
            LET prices == NewPrices(products[Returned[i].product_id])
            IN  prices # {} =>
                    /\ Returned[i].price_range # None
                    /\ Halves(Returned[i].price_range[1])
                          = [min |-> Lowest(prices), max |-> Highest(prices)]

\* C3: in_budget is true exactly when budget_max was given and a
\* new-condition offer costs at most budget_max; for a product without
\* new-condition offers but with a price_range, exactly when the min of
\* that range is at most budget_max.
C3_InBudgetIff ==
    Answered =>
        \A i \in 1..Len(Returned) :
            LET product == products[Returned[i].product_id]
                prices == NewPrices(product)
                budget_max == request[1].budget_max
                given == budget_max # None /\ budget_max[1] # 0
                flag == Returned[i].in_budget = Some(TRUE)
            IN  IF prices # {}
                THEN flag <=> (given /\ \E x \in prices : x <= 2 * budget_max[1])
                ELSE IF product.price_range # None
                THEN flag <=> (given /\ product.price_range[1].min <= 2 * budget_max[1])
                ELSE ~flag

RatingTerm(product) ==
    IF product.rating # None THEN 10 * product.rating[1] ELSE 0

PopularityTerm(product) ==
    IF product.popularity_rank # None
    THEN IF product.popularity_rank[1] >= 100 THEN 0
         ELSE 10 * (100 - product.popularity_rank[1])
    ELSE 0

\* The known price minimum of a product: None when it has neither a
\* new-condition offer nor a price_range.
KnownMin(product) ==
    IF NewPrices(product) # {} THEN Some(Lowest(NewPrices(product)))
    ELSE IF product.price_range # None THEN Some(product.price_range[1].min)
    ELSE None

HasPriceTerm(product, budget_max) ==
    budget_max # None /\ budget_max[1] # 0 /\ KnownMin(product) # None

PriceTermNum(product, budget_max) ==
    LET headroom == 150 * (2 * budget_max[1] - KnownMin(product)[1])
    IN  IF headroom > 0 THEN headroom ELSE 0

\* C5 as stated: the score of every result is exactly rating term +
\* price term + popularity term.
C5_ScoreIsSum ==
    Answered =>
        \A i \in 1..Len(Returned) :
            LET product == products[Returned[i].product_id]
                budget_max == request[1].budget_max
                fixed == RatingTerm(product) + PopularityTerm(product)
            IN  IF HasPriceTerm(product, budget_max)
                THEN Returned[i].score * budget_max[1]
                        = fixed * budget_max[1] + PriceTermNum(product, budget_max)
                ELSE Returned[i].score = fixed

\* C5 (amended): the score of every result is rating term + price term +
\* popularity term rounded to one decimal place.
C5_ScoreIsRoundedSum ==
    Answered =>
        \A i \in 1..Len(Returned) :
            LET product == products[Returned[i].product_id]
                budget_max == request[1].budget_max
                fixed == RatingTerm(product) + PopularityTerm(product)
            IN  IF HasPriceTerm(product, budget_max)
                THEN Returned[i].score
                        = Round(fixed * budget_max[1] + PriceTermNum(product, budget_max),
                                budget_max[1])
                ELSE Returned[i].score = fixed

\* A product rated 4.5 with rank 1 and a minimum price of 649.5 under a
\* budget of 680 scores 45 + 1.3456 + 99, reported as 145.3; and a product
\* without rating and rank scores 0 when no budget is given.
C5_Witness ==
    /\ Answered
    /\ \E i \in 1..Len(Returned) :
          /\ request[1].budget_max = Some(680)
          /\ products[Returned[i].product_id].rating = Some(45)
          /\ products[Returned[i].product_id].popularity_rank = Some(1)
          /\ products[Returned[i].product_id].price_range # None
          /\ products[Returned[i].product_id].price_range[1].min = 1299
          /\ Returned[i].score = 1453

\* C6: by default the returned scores never increase along the list;
\* with sort=price the returned price_range.min never decreases.
C6_OrderedByCriterion ==
    Answered =>
        \A i \in 1..(Len(Returned) - 1) :
            /\ request[1].sort = "rating" =>
                    Returned[i].score >= Returned[i + 1].score
            /\ request[1].sort = "price" =>
                    /\ Returned[i].price_range # None
                    /\ Returned[i + 1].price_range # None
                    /\ Returned[i].price_range[1].min <= Returned[i + 1].price_range[1].min

\* Two products are returned in the opposite of their stored order because
\* the second one scores higher, and likewise for a lower price.
C6_Witness ==
    /\ Answered
    /\ Len(Returned) = 2
    /\ Returned[1].product_id > Returned[2].product_id
    /\ \/ request[1].sort = "rating" /\ Returned[1].score > Returned[2].score
       \/ /\ request[1].sort = "price"
          /\ Returned[1].price_range[1].min < Returned[2].price_range[1].min

\* C7: with sort=popularity the ranks ascend and every result with a rank
\* comes before every result without one.
C7_MissingRankLast ==
    (Answered /\ request[1].sort = "popularity") =>
        \A i, j \in 1..Len(Returned) :
            i < j =>
                /\ Returned[i].popularity_rank = None
                        => Returned[j].popularity_rank = None
                /\ (Returned[i].popularity_rank # None /\ Returned[j].popularity_rank # None)
                        => Returned[i].popularity_rank[1] <= Returned[j].popularity_rank[1]

Normalized ==
    (IF detail = None \/ detail[1].answer.status # 200 THEN {}
     ELSE {[from |-> products[detail[1].answer.product.product_id].specs,
            to |-> detail[1].answer.product.specs]})
    \cup
    (IF ~Answered THEN {}
     ELSE {[from |-> products[Returned[i].product_id].specs, to |-> Returned[i].specs] :
            i \in 1..Len(Returned)})

\* C9: the normalized specs have exactly the keys of the stored specs.
C9_KeysPreserved ==
    \A n \in Normalized : Keys(n.to) = Keys(n.from)

\* The value the priority order of the specification gives for one spec
\* value; None when no rule yields a value.
ByPriority(value) ==
    IF ~value.isdict THEN Some(value.sc)
    ELSE IF \E i \in 1..Len(value.items) : value.items[i].key = "value"
    THEN Some(Get(value.items, "value"))
    ELSE IF {"min", "max"} \subseteq Keys(value.items)
    THEN Some(StrVal(ToString(Get(value.items, "min").n) \o "-"
                        \o ToString(Get(value.items, "max").n)))
    ELSE LET ok == {i \in 1..Len(value.items) :
                        /\ value.items[i].key \notin {"confidence", "sources", "unit"}
                        /\ value.items[i].val \notin
                              {IntVal(0), StrVal(""), BoolVal(FALSE), ListVal(0), NoneVal}}
         IN  IF ok = {} THEN None
             ELSE Some(value.items[CHOOSE i \in ok : \A j \in ok : i <= j].val)

\* C10: every spec key for which the priority order yields a value is
\* normalized to that value.
C10_PriorityOrder ==
    \A n \in Normalized :
        \A i \in 1..Len(n.from) :
            ByPriority(n.from[i].val) # None =>
                /\ HasKey(n.to, n.from[i].key)
                /\ Some(Get(n.to, n.from[i].key)) = ByPriority(n.from[i].val)

\* A comparison endpoint has answered with products and their matrix.
MatrixAnswered ==
    /\ comparison # None
    /\ comparison[1].op \in {"compare_products", "get_comparison_session"}
    /\ comparison[1].answer.status = 200

ComparedProducts == comparison[1].answer.products

Matrix == comparison[1].answer.comparison

\* C11: no value of a normalized specs mapping is itself a mapping, neither
\* in the specs of a product of the answer nor in a specs row of the matrix.
C11_NeverAMapping ==
    MatrixAnswered =>
        /\ \A i \in 1..Len(ComparedProducts) :
              \A j \in 1..Len(ComparedProducts[i].specs) :
                  ComparedProducts[i].specs[j].val.k # "dict"
        /\ Matrix # None =>
              \A id \in DOMAIN Matrix[1].specs :
                  \A key \in DOMAIN Matrix[1].specs[id] :
                      Matrix[1].specs[id][key].k # "dict"

\* The spec keys of the stored documents of the compared products.
UnionKeys ==
    UNION {Keys(products[ComparedProducts[i].product_id].specs) :
              i \in 1..Len(ComparedProducts)}

\* C12: the specs row of every compared product has exactly the union of
\* the spec keys of the compared products as its keys; it holds the
\* product's normalized value for a spec the product has and the sentinel
\* for a spec it lacks.
C12_UnionRows ==
    (MatrixAnswered /\ Matrix # None) =>
        \A i \in 1..Len(ComparedProducts) :
            LET id == ComparedProducts[i].product_id
                row == Matrix[1].specs[id]
                stored == products[id].specs
            IN  /\ DOMAIN row = UnionKeys
                /\ \A key \in DOMAIN row :
                      IF HasKey(stored, key)
                      THEN Some(row[key]) = ByPriority(Get(stored, key))
                      ELSE row[key] = Sentinel

\* The ids of a comparison request that name a stored product.
NamedProducts ==
    {comparison[1].ids[k] : k \in 1..Len(comparison[1].ids)} \cap 1..Len(products)

\* C13: whenever the matrix builder is given a non-empty list of products
\* it yields five sub-tables whose key sets are the ids of these products.
C13_AlignedSubTables ==
    (/\ comparison # None
     /\ comparison[1].op \in {"compare_products", "get_comparison_session"}
     /\ Len(comparison[1].ids) <= 4
     /\ \A k \in 1..Len(comparison[1].ids) : ObjectIdIsValid(comparison[1].ids[k])
     /\ NamedProducts # {}) =>
        /\ comparison[1].answer.status = 200
        /\ Matrix # None
        /\ DOMAIN Matrix[1].basic_info = NamedProducts
        /\ DOMAIN Matrix[1].pricing = NamedProducts
        /\ DOMAIN Matrix[1].specs = NamedProducts
        /\ DOMAIN Matrix[1].ratings = NamedProducts
        /\ DOMAIN Matrix[1].availability = NamedProducts

\* C15: the min and max of every pricing row are the price range search
\* reports for the product: over its new-condition offers, else its
\* price_range, else 0 and 0.
C15_PricingAsSearch ==
    (MatrixAnswered /\ Matrix # None) =>
        \A id \in DOMAIN Matrix[1].pricing :
            Some([min |-> Matrix[1].pricing[id].min,
                  max |-> Matrix[1].pricing[id].max])
                = convert_price_range(final_price_range(products[id], None))

\* The status of an answer is a client error.
ClientError(answer) == answer.status \in 400..499

\* C14: a matrix never has more than 4 products; a direct comparison of
\* more than 4 ids, and the request to add a further product to a session
\* that holds 4, are answered with a client error.
C14_AtMostFour ==
    comparison # None =>
        LET op == comparison[1].op
            ids == comparison[1].ids
            answer == comparison[1].answer
            session_id == comparison[1].session_id
        IN  /\ (MatrixAnswered /\ Matrix # None) =>
                    Cardinality(DOMAIN Matrix[1].pricing) <= 4
            /\ (op = "compare_products" /\ Len(ids) > 4) => ClientError(answer)
            /\ (/\ op = "add_to_comparison"
                /\ ~NoSession(session_id)
                /\ Len(comparison_sessions[session_id]) >= 4
                /\ Known(ids[1])
                /\ \A i \in 1..Len(comparison_sessions[session_id]) :
                      comparison_sessions[session_id][i] # ids[1])
                    => ClientError(answer)

\* C16: a request with a malformed id is answered with a client error by
\* every operation that takes an id.
C16_MalformedIsClientError ==
    /\ (detail # None /\ ~ObjectIdIsValid(detail[1].id))
            => ClientError(detail[1].answer)
    /\ (reply # None /\ ~ObjectIdIsValid(reply[1].id))
            => ClientError(reply[1].answer)
    /\ (/\ comparison # None
        /\ comparison[1].op \in {"compare_products", "add_to_comparison"}
        /\ \E i \in 1..Len(comparison[1].ids) : ~ObjectIdIsValid(comparison[1].ids[i]))
            => ClientError(comparison[1].answer)
    /\ (/\ favorite # None
        /\ favorite[1].op \in {"add_to_favorites", "toggle_favorite"}
        /\ ~ObjectIdIsValid(favorite[1].product_id))
            => ClientError(favorite[1].answer)

\* C17: a direct comparison that names a well-formed id of no product is
\* answered with 404.
C17_UnknownIsNotFound ==
    (/\ comparison # None
     /\ comparison[1].op = "compare_products"
     /\ Len(comparison[1].ids) <= 4
     /\ \A i \in 1..Len(comparison[1].ids) : ObjectIdIsValid(comparison[1].ids[i])
     /\ \E i \in 1..Len(comparison[1].ids) : ~Known(comparison[1].ids[i]))
        => comparison[1].answer.status = 404

\* C18: a step in which a search or a comparison is answered leaves the
\* stored products, variants, offers and reviews as they were.
C18_ReadOnly ==
    [][(request' # request \/ response' # response \/ comparison' # comparison)
          => (products' = products /\ reviews' = reviews)]_vars

\* A search has returned a product and a comparison a matrix, over a
\* store with a fractional price_range, a variant and an offer or a review.
C18_Witness ==
    /\ Answered /\ Len(Returned) > 0
    /\ MatrixAnswered /\ Matrix # None
    /\ products[1].price_range = Some([min |-> 1199, max |-> 1401])
    /\ Attached = FrameAttached

\* The score before any rounding, in tenths of a point, as a fraction.
Unrounded(product, budget_max) ==
    LET fixed == RatingTerm(product) + PopularityTerm(product)
    IN  IF HasPriceTerm(product, budget_max)
        THEN [num |-> fixed * budget_max[1] + PriceTermNum(product, budget_max),
              den |-> budget_max[1]]
        ELSE [num |-> fixed, den |-> 1]

\* C19: under the default sort the scores before rounding never increase
\* along the returned list.
C19_OrderedByUnrounded ==
    (Answered /\ request[1].sort = "rating") =>
        \A i \in 1..(Len(Returned) - 1) :
            LET a == Unrounded(products[Returned[i].product_id], request[1].budget_max)
                b == Unrounded(products[Returned[i + 1].product_id], request[1].budget_max)
            IN  a.num * b.den >= b.num * a.den

\* The favorites of the user with a token, in the documents favs.
ItemsIn(favs, token) ==
    LET hits == {i \in 1..Len(favs) : favs[i].user_id = hash_user_token(token)}
    IN  IF hits = {} THEN <<>>
        ELSE favs[CHOOSE i \in hits : \A j \in hits : i <= j].items

FavItems(token) == ItemsIn(favorites, token)

\* C20: a step in which add_to_favorites reports "Added to favorites" for
\* user u and product p puts p among the favorites of u and makes them one
\* more; p leaves the favorites of u only in a step in which u removes p,
\* toggles p or clears the favorites; and check_favorite reports for u and
\* p whether p is among the favorites of u.
C20_FavoriteStays ==
    [][/\ (/\ favorite' # favorite
           /\ favorite'[1].op = "add_to_favorites"
           /\ favorite'[1].answer.status = 200
           /\ favorite'[1].answer.message = "Added to favorites") =>
              /\ InItems(ItemsIn(favorites', favorite'[1].user[1]),
                         favorite'[1].product_id)
              /\ Len(ItemsIn(favorites', favorite'[1].user[1]))
                    = Len(ItemsIn(favorites, favorite'[1].user[1])) + 1
              /\ favorite'[1].answer.count
                    = Len(ItemsIn(favorites', favorite'[1].user[1]))
       /\ \A u \in FavTokens : \A p \in FavIds :
              (InItems(ItemsIn(favorites, u), p) /\ ~InItems(ItemsIn(favorites', u), p)) =>
                  /\ favorite' # favorite
                  /\ favorite'[1].user = Some(u)
                  /\ \/ favorite'[1].op = "clear_favorites"
                     \/ /\ favorite'[1].op \in {"remove_from_favorites", "toggle_favorite"}
                        /\ favorite'[1].product_id = p
       /\ (/\ favorite' # favorite
           /\ favorite'[1].op = "check_favorite"
           /\ favorite'[1].user # None) =>
              favorite'[1].answer.is_favorite
                  = InItems(ItemsIn(favorites', favorite'[1].user[1]),
                            favorite'[1].product_id)
      ]_vars

\* check_favorite has answered true for a user who has two favorites while
\* the other user has favorites too.
C20_Witness ==
    /\ favorite # None
    /\ favorite[1].op = "check_favorite"
    /\ favorite[1].answer.is_favorite
    /\ Len(FavItems(favorite[1].user[1])) = 2
    /\ Len(favorites) = 2
    /\ \A i \in 1..Len(favorites) : favorites[i].items # <<>>

\* A step in which a favorites endpoint has answered the request op.
FavoriteStep(op) == favorite' # favorite /\ favorite'[1].op = op

\* C21: a toggle for a product among the user's favorites removes it and
\* reports "removed" and is_favorite false; a toggle for a stored product
\* not among them adds it and reports "added" and is_favorite true; no
\* toggle changes the membership of another product; and a toggle that
\* follows a toggle of the same user and product leaves the product in
\* the favorites exactly if it was there before the earlier one.
C21_ToggleFlips ==
    [][FavoriteStep("toggle_favorite") =>
          LET u == favorite'[1].user[1]
              p == favorite'[1].product_id
              answer == favorite'[1].answer
              before == ItemsIn(favorites, u)
              after == ItemsIn(favorites', u)
          IN  /\ InItems(before, p) =>
                    /\ ~InItems(after, p)
                    /\ answer.status = 200
                    /\ answer.action = "removed"
                    /\ ~answer.is_favorite
              /\ (~InItems(before, p) /\ Known(p)) =>
                    /\ InItems(after, p)
                    /\ answer.status = 200
                    /\ answer.action = "added"
                    /\ answer.is_favorite
              /\ \A other \in FavIds \ {p} :
                    InItems(after, other) <=> InItems(before, other)
              /\ (/\ favorite # None
                  /\ favorite[1].op = "toggle_favorite"
                  /\ favorite[1].user = favorite'[1].user
                  /\ favorite[1].product_id = p
                  /\ favorite[1].answer.status = 200
                  /\ answer.status = 200) =>
                    (InItems(after, p) <=> favorite[1].answer.action = "removed")
      ]_vars

\* A second toggle has removed a product again while another product
\* stays among the user's favorites.
C21_Witness ==
    /\ favorite # None
    /\ favorite[1].op = "toggle_favorite"
    /\ favorite[1].answer.status = 200
    /\ favorite[1].answer.action = "removed"
    /\ Len(FavItems(favorite[1].user[1])) = 1
    /\ ~InItems(FavItems(favorite[1].user[1]), favorite[1].product_id)

\* The stored offers of the variant with an id string.
StoredOffers(variant_id) ==
    products[AllVariants[variant_id][1]].variants[AllVariants[variant_id][2]]

\* The number of times x occurs in a list.
Count(list, x) == Cardinality({i \in 1..Len(list) : list[i] = x})

\* The best offer reported for a condition is right: null exactly when the
\* variant has no offer of the condition, else an offer of the condition
\* with the lowest price among them.
BestIsRight(best, stored, condition) ==
    LET prices == {stored[i].price_amount :
                      i \in {k \in 1..Len(stored) : stored[k].condition = condition}}
    IN  IF prices = {} THEN best = None
        ELSE /\ best # None
             /\ best[1].condition = condition
             /\ best[1].price_amount = Lowest(prices)

\* C22: get_variant_offers returns the offers of the variant of every
\* condition, each as often as it is stored, with best_new and
\* best_refurbished the cheapest offer of their condition.
C22_OffersPerVariant ==
    (/\ reply # None
     /\ reply[1].op = "get_variant_offers"
     /\ reply[1].id \in 1..Len(AllVariants)) =>
        LET answer == reply[1].answer
            stored == StoredOffers(reply[1].id)
        IN  /\ answer.status = 200
            /\ Len(answer.offers) = Len(stored)
            /\ \A i \in 1..Len(stored) :
                  Count(answer.offers, stored[i]) = Count(stored, stored[i])
            /\ BestIsRight(answer.best_new, stored, "new")
            /\ BestIsRight(answer.best_refurbished, stored, "refurbished")

\* A stored specs mapping as the dict of Python values it is.
AsMapping(specs) ==
    [i \in 1..Len(specs) |->
        Item(specs[i].key,
             IF specs[i].val.isdict THEN DictVal(specs[i].val.items)
             ELSE specs[i].val.sc)]

\* The value a normalized mapping has for a key, None when it has none.
ValueAt(mapping, key) ==
    IF HasKey(mapping, key) THEN Some(Get(mapping, key)) ELSE None

\* C23: the three normalizers are one function: the specs returned by
\* get_product and by search_products for equal stored specs are equal, and
\* the spec extraction of the comparison matrix gives, for every key of the
\* stored specs, the value these answers have for the key.
C23_OneNormalizer ==
    /\ \A n1, n2 \in Normalized : n1.from = n2.from => n1.to = n2.to
    /\ \A n \in Normalized : \A key \in Keys(n.from) :
          MatrixSpecValue(AsMapping(n.from), key) = ValueAt(n.to, key)

\* C24: in the specs rows of the matrix the sentinel stands only for a key
\* the product does not have, and a product whose stored spec value is a
\* scalar, a zero, false or an empty string included, is shown with that
\* value.
C24_SentinelOnlyForMissing ==
    (MatrixAnswered /\ Matrix # None) =>
        \A i \in 1..Len(ComparedProducts) :
            LET id == ComparedProducts[i].product_id
                row == Matrix[1].specs[id]
                stored == products[id].specs
            IN  /\ \A key \in DOMAIN row :
                      row[key] = Sentinel => ~HasKey(stored, key)
                /\ \A j \in 1..Len(stored) :
                      ~stored[j].val.isdict =>
                          /\ stored[j].key \in DOMAIN row
                          /\ row[stored[j].key] = stored[j].val.sc

\* C25: no comparison session holds more than 4 product ids, whatever the
\* interleaving of the add requests on it.
C25_SessionAtMostFour ==
    \A session_id \in 1..Len(comparison_sessions) :
        Len(comparison_sessions[session_id]) <= 4

\* No list of the sessions has an id twice.
NoDuplicates(sessions) ==
    \A session_id \in 1..Len(sessions) :
        \A i, j \in 1..Len(sessions[session_id]) :
            sessions[session_id][i] = sessions[session_id][j] => i = j

\* A step in which an add request is answered.
AddAnswered ==
    /\ Len(inflight') < Len(inflight)
    /\ comparison'[1].op = "add_to_comparison"

\* C26: no product_ids list of a session has an id twice, after every step
\* of every interleaving of add, remove and clear requests, and the answer
\* to an add request for a product the session already has leaves the list
\* as it was.
C26_NoDuplicateIds ==
    [][/\ NoDuplicates(comparison_sessions')
       /\ AddAnswered =>
             LET session_id == comparison'[1].session_id
                 product_id == comparison'[1].ids[1]
             IN  InItems(comparison_sessions[session_id], product_id) =>
                    /\ comparison_sessions' = comparison_sessions
                    /\ comparison'[1].answer.status = 200
                    /\ comparison'[1].answer.product_ids =
                          comparison_sessions[session_id]]_vars

\* An add request for a product that the session had already has been
\* answered while another add request is suspended: the product is in the
\* answered list, not as its last id.
C26_Witness ==
    /\ comparison # None
    /\ comparison[1].op = "add_to_comparison"
    /\ comparison[1].answer.status = 200
    /\ inflight # <<>>
    /\ LET session == comparison_sessions[comparison[1].session_id]
       IN  /\ comparison[1].answer.product_ids = session
           /\ Len(session) >= 2
           /\ \E i \in 1..(Len(session) - 1) : session[i] = comparison[1].ids[1]

\* C27: every user has at most one favorites document, and no items list
\* has a product id twice, whatever the interleaving of the add and toggle
\* requests of the user.
C27_OneDocumentNoDuplicates ==
    /\ \A i, j \in 1..Len(favorites) :
          favorites[i].user_id = favorites[j].user_id => i = j
    /\ \A d \in 1..Len(favorites) :
          \A i, j \in 1..Len(favorites[d].items) :
              favorites[d].items[i] = favorites[d].items[j] => i = j

\* The stored products that match the filters of a query and pass its
\* budget filter.
Passing(q) ==
    {p \in 1..Len(products) :
        Matches(products[p], q) /\ ~Skipped(products[p], q.budget_max)}

\* C28: a search returns min(limit, N) products, N being the number of
\* stored products that match the filters and pass the budget filter.
C28_LimitOrAll ==
    Answered =>
        Len(Returned) = Min2(request[1].limit, Cardinality(Passing(request[1])))

\* C29: every returned product has in_budget = true when budget_max was
\* supplied (non-zero) and in_budget = null when it was not; none has
\* in_budget = false.
C29_InBudgetOfReturned ==
    Answered =>
        \A i \in 1..Len(Returned) :
            /\ Returned[i].in_budget =
                  (IF BudgetSet(request[1].budget_max) THEN Some(TRUE) ELSE None)
            /\ Returned[i].in_budget # Some(FALSE)

\* A search with a budget has returned a product and skipped a candidate
\* that has a new offer above the budget only.
C29_Witness ==
    /\ Answered
    /\ BudgetSet(request[1].budget_max)
    /\ Len(Returned) >= 1
    /\ \E k \in 1..Len(Candidates(request[1])) :
          LET product == products[Candidates(request[1])[k]]
          IN  /\ Skipped(product, request[1].budget_max)
              /\ NewPrices(product) # {}

\* C30: remove_from_favorites answers "Removed from favorites" only for a
\* product that was in the user's favorites; for a product that was not, it
\* answers "Product not in favorites" and leaves the items as they were.
C30_RemovedOnlyIfPresent ==
    [][(FavoriteStep("remove_from_favorites") /\ favorite'[1].answer.status = 200) =>
          LET u == favorite'[1].user[1]
              p == favorite'[1].product_id
              message == favorite'[1].answer.message
              before == ItemsIn(favorites, u)
          IN  /\ message = "Removed from favorites" => InItems(before, p)
              /\ ~InItems(before, p) =>
                    /\ message = "Product not in favorites"
                    /\ ItemsIn(favorites', u) = before]_vars

====
